---------------------------- MODULE Spec2Model ----------------------------
(***************************************************************************)
(* A state-machine model of extract_kingdoms                               *)
(* (src/LOTRAOM_FactionMap/Tools/claudeweb/extract_kingdoms.py).           *)
(*                                                                         *)
(* Rasters.  A raster of h x w pixels is represented by a partition into   *)
(* cells: vertical stripes [x0, x1) spanning all rows, plus rectangles     *)
(* [x0, x1) x [y0, y1) cut out of a host stripe (the Orthanc blob and the  *)
(* Sea of Rhun component).  Every pixel field of the program (ws,          *)
(* kingdom_map, km, km_final, the exported masks) is a function from cells *)
(* to values; pixel counts, coordinate sums and colour sums are computed   *)
(* from the cells' geometry in pixels, so sizes, percentages, centroids    *)
(* and fixed-coordinate probes are those of the real raster.  The inputs   *)
(* are drawn from two families of rasters that are piecewise constant on   *)
(* such cells: small rasters (50 rows) and one large layout (1320 x 1720)  *)
(* that contains every fixed coordinate of Steps 10-15.                    *)
(*                                                                         *)
(* Cells.  "stripe" columns are the areas between border lines (one        *)
(* watershed seed each), "line" columns the one-pixel border lines, "rect" *)
(* a box and "ring" the one-pixel ridge around a box that is a seed of its *)
(* own, "crumbs" an area of seeds of fewer than 50 pixels each, none of    *)
(* which becomes a FineRegion.  cv2.watershed writes -1 to the outer one-pixel frame of ws, so    *)
(* the region masks and kingdom_map leave the frame out (InnerN and        *)
(* InnerCount) while km and km_final cover it (CellN and Count).           *)
(*                                                                         *)
(* OpenCV stages.  Steps 1-4 (border detection, dark blob rescue, HSV      *)
(* edges, watershed) are library computations.  On a piecewise constant    *)
(* raster the watershed labels every stripe and every box painted unlike   *)
(* its stripe; on the textured raster (a one-pixel checkerboard, tex) the  *)
(* border mask covers every pixel and no seed is left.  Which FineRegions  *)
(* overlapping very dark pixels the blob rescue protects is chosen by the  *)
(* Segment action among ProtectedChoices.  Where two claimed pixels are    *)
(* equally near, distance_transform_edt may return either: the Step8       *)
(* action chooses one of TieRules.                                         *)
(*                                                                         *)
(* Border mask.  The loop of Step 2 and Step 3 are followed pixel column   *)
(* by pixel column in BlobSpec, on rasters of vertical stripes; in Spec    *)
(* their outcome is part of the segmentation and border_fixed stays empty. *)
(*                                                                         *)
(* Calls.  A completed call may be followed by another call that writes    *)
(* into the same output directory (Rerun); fs is what is on disk, every    *)
(* other variable is local to the call.                                    *)
(*                                                                         *)
(* Arithmetic.  Means are exact rationals (numerator, denominator), not    *)
(* float64; comparisons are exact.                                         *)
(***************************************************************************)
EXTENDS Integers, Sequences, FiniteSets, TLC

VARIABLES
    run,                    \* number of the call of extract_kingdoms
    pc,                     \* position in extract_kingdoms
    img,                    \* result of cv2.imread: a raster, or NoImage
    fs,                     \* the output directory on disk
    edt_tie,                \* tie rule of ndimage.distance_transform_edt
    border_fixed,           \* Steps 2-3: pixel columns set in border_fixed
    rescued_blob_masks,     \* Step 2: the masks of the rescued blobs
    blob_id,                \* Step 2: the blob the loop of line 89 is at
    ws,                     \* watershed label field (cell -> label)
    num_labels,
    region_colors, region_sizes, region_hues, region_sats,
    protected_region_ids,
    adjacency,              \* set of <<r, n>> with n in adjacency[r]
    pairs,
    parent, rnk,
    pass_num, pidx, groups, gavg, gsz, ghue, gsat, merged,
    all_kingdoms,
    kingdom_map,            \* Step 7 (cell -> kid; the frame is 0)
    km,                     \* Steps 8-15 (cell -> kid, frame included)
    km_final, num_k,
    kingdom_data

vars == <<run, pc, img, border_fixed, rescued_blob_masks, blob_id, fs, edt_tie, ws, num_labels, region_colors, region_sizes,
          region_hues, region_sats, protected_region_ids, adjacency,
          pairs, parent, rnk, pass_num, pidx, groups, gavg, gsz, ghue, gsat,
          merged, all_kingdoms, kingdom_map, km, km_final, num_k, kingdom_data>>

borderVars == <<border_fixed, rescued_blob_masks, blob_id>>

-----------------------------------------------------------------------------
(* Bounds of the model *)

\* Largest number of FineRegions of a small raster.
MaxRegions == 4

\* Number of calls that write into the same output directory.
MaxRuns == 2

\* Number of elements of the disjoint-set forest explored on its own.
MaxElements == 5

-----------------------------------------------------------------------------
(* Exact arithmetic *)

Abs(x) == IF x < 0 THEN -x ELSE x

Min(a, b) == IF a <= b THEN a ELSE b

RECURSIVE GCD(_, _)
GCD(a, b) == IF b = 0 THEN a ELSE GCD(b, a % b)

RECURSIVE SumF(_, _)
\* f[1] + ... + f[n]
SumF(f, n) == IF n = 0 THEN 0 ELSE f[n] + SumF(f, n - 1)

\* A rational scalar n/d in lowest terms, d > 0.
Rat(n, d) ==
    LET g == GCD(Abs(n), d) IN [n |-> n \div g, d |-> d \div g]

\* A rational colour <<r, g, b>>/d in lowest terms.
RatVec(n, d) ==
    LET g == GCD(GCD(GCD(n[1], n[2]), n[3]), d)
    IN  [n |-> <<n[1] \div g, n[2] \div g, n[3] \div g>>, d |-> d \div g]

RECURSIVE RatLess(_, _, _, _)
\* a/b < c/d for a, c >= 0 and b, d > 0, without forming a*d and c*b.
RatLess(a, b, c, d) ==
    LET qa == a \div b
        qc == c \div d
        ra == a % b
        rc == c % d
    IN  IF qa # qc THEN qa < qc
        ELSE IF rc = 0 THEN FALSE
        ELSE IF ra = 0 THEN TRUE
        ELSE RatLess(d, rc, b, ra)

\* The squared Euclidean distance of two rational colours, as <<num, den>>.
DistSq(c1, c2) ==
    LET a == [i \in 1..3 |-> c1.n[i] * c2.d - c2.n[i] * c1.d]
        b == c1.d * c2.d
    IN  <<a[1] * a[1] + a[2] * a[2] + a[3] * a[3], b * b>>

\* np.sqrt(np.sum((c1 - c2)**2)) < t50/50.  A single channel that differs by
\* t50/50 or more decides the comparison before any square is formed.
DistBelow(c1, c2, t50) ==
    LET a == [i \in 1..3 |-> Abs(c1.n[i] * c2.d - c2.n[i] * c1.d)]
        b == c1.d * c2.d
    IN  IF \E i \in 1..3 : a[i] * 50 >= t50 * b THEN FALSE
        ELSE RatLess(a[1] * a[1] + a[2] * a[2] + a[3] * a[3], b * b,
                     t50 * t50, 2500)

DistEqual(c1, c2, t50) ==
    LET dq == DistSq(c1, c2)
    IN  ~RatLess(dq[1], dq[2], t50 * t50, 2500)
        /\ ~RatLess(t50 * t50, 2500, dq[1], dq[2])

-----------------------------------------------------------------------------
(* Pixel values.  hue, sat are the 8-bit HSV channels of cv2.cvtColor      *)
(* (H in 0..180), gray the BGR2GRAY value of the colour.                   *)

Paint(r, g, b, hue, sat, gray) ==
    [rgb |-> <<r, g, b>>, hue |-> hue, sat |-> sat, gray |-> gray]

ColA  == Paint(40, 20, 10, 10, 191, 25)
ColD  == Paint(52, 28, 16, 10, 177, 34)
ColB  == Paint(64, 32, 18, 9, 183, 40)
ColE  == Paint(40, 28, 16, 15, 153, 30)
ColK1 == Paint(20, 20, 20, 0, 0, 20)
ColK2 == Paint(60, 40, 40, 0, 85, 46)
ColG1 == Paint(100, 140, 80, 50, 109, 121)
ColG2 == Paint(130, 130, 90, 30, 78, 125)
ColY  == Paint(200, 180, 100, 24, 128, 177)
ColGray == Paint(128, 128, 128, 0, 0, 128)
ColTex == Paint(155, 155, 155, 0, 0, 155)

SmallPalette == {ColA, ColD, ColB}

BigPalette == {ColK1, ColK2, ColG1, ColG2, ColY}

-----------------------------------------------------------------------------
(* Rasters *)

NoImage == [h |-> 0, w |-> 0, tex |-> FALSE, cells |-> <<>>]

\* A column cell: the pixel columns [x0, x1) over all rows.  kind "stripe"
\* is an area between border lines (one watershed seed), kind "line" a
\* one-pixel border line that the watershed leaves as ridge (-1), kind
\* "crumbs" an area covered by seeds of fewer than 50 pixels each.
Column(kind, x0, x1, h, paint, k) ==
    [kind |-> kind, x0 |-> x0, x1 |-> x1, y0 |-> 0, y1 |-> h,
     paint |-> paint, host |-> k, inner |-> 0]

\* The box [x0, x1) x [y0, y1) inside stripe host.
Rect(x0, x1, y0, y1, paint, host) ==
    [kind |-> "rect", x0 |-> x0, x1 |-> x1, y0 |-> y0, y1 |-> y1,
     paint |-> paint, host |-> host, inner |-> 0]

\* The four one-pixel sides (without the corners) around the box of cell
\* inner: the ridge the watershed leaves around a box that is a seed.
Ring(r, paint, inner) ==
    [kind |-> "ring", x0 |-> r.x0, x1 |-> r.x1, y0 |-> r.y0, y1 |-> r.y1,
     paint |-> paint, host |-> r.host, inner |-> inner]

\* Width of the i-th stripe of a small raster of n stripes; stripe narrow
\* (if any) is one pixel wide and stays below the minimum region size.
SmallWidth(n, i, narrow) ==
    IF n = 1 THEN 50 ELSE IF i = narrow THEN 1 ELSE 8 * ((i % 3) + 1)

SmallColWidth(n, k, narrow) ==
    IF k % 2 = 1 THEN SmallWidth(n, (k + 1) \div 2, narrow) ELSE 1

SmallX0(n, k, narrow) ==
    SumF([j \in 1..(k - 1) |-> SmallColWidth(n, j, narrow)], k - 1)

\* The small raster of 50 rows whose stripes carry the colours paints[1..n],
\* with a border line (painted like the stripe on its left) between
\* consecutive stripes.
SmallRaster(paints, narrow) ==
    LET n == Len(paints)
        m == 2 * n - 1
    IN  [h |-> 50,
         w |-> SmallX0(n, m + 1, narrow),
         tex |-> FALSE,
         cells |-> [k \in 1..m |->
                      Column(IF k % 2 = 1 THEN "stripe" ELSE "line",
                             SmallX0(n, k, narrow), SmallX0(n, k + 1, narrow),
                             50, paints[(k + 1) \div 2], k)]]

\* Stripes of two very dark colours of different hue and saturation that
\* are nearer to each other than the threshold for two protected sets.
DarkNeighbours ==
    {<<ColA, ColE>>, <<ColE, ColA, ColD>>, <<ColA, ColE, ColB, ColA>>}

\* Width of each of the two areas of crumbs of the crumb raster.
CrumbWidth == 400

\* Two stripes of two pixel columns each with a border line between them,
\* in the middle of crumbs: each stripe is a FineRegion of 96 pixels, less
\* than 0.25% of the raster.  Every row of the crumbs holds an even number
\* of ridge pixels.
CrumbRaster ==
    [h |-> 50,
     w |-> 2 * CrumbWidth + 5,
     tex |-> FALSE,
     cells |-> << Column("crumbs", 0, CrumbWidth, 50, ColTex, 1),
                  Column("stripe", CrumbWidth, CrumbWidth + 2, 50, ColA, 2),
                  Column("line", CrumbWidth + 2, CrumbWidth + 3, 50, ColA, 3),
                  Column("stripe", CrumbWidth + 3, CrumbWidth + 5, 50, ColY, 4),
                  Column("crumbs", CrumbWidth + 5, 2 * CrumbWidth + 5, 50,
                         ColTex, 5) >>]

SmallRasters ==
    {SmallRaster(<<ColGray>>, 0), CrumbRaster}
    \cup UNION {{SmallRaster(p, 0) : p \in [1..n -> SmallPalette]} :
                   n \in 2..MaxRegions}
    \cup {SmallRaster(<<p[1], p[1], p[2]>>, 2) : p \in [1..2 -> SmallPalette]}
    \cup {SmallRaster(p, 0) : p \in DarkNeighbours}

\* The large layout: 10 stripes separated by 9 border lines.
BigStarts ==
    <<0, 782, 783, 834, 835, 855, 856, 876, 877, 1000, 1001, 1200, 1201,
      1429, 1430, 1704, 1705, 1715, 1716, 1720>>

BigHeight == 1320

\* A box inside the Orthanc area [580:680, 770:860], in stripe 3.
OrthancBox(paint) == Rect(790, 820, 600, 660, paint, 3)

\* The Rhun area [380:580, 1440:1680] (line 433), in stripe 15.
RhunBox(paint) == Rect(1440, 1680, 380, 580, paint, 15)

\* Cells 1..19 are the columns, cell 20 the Orthanc box painted orth, cell
\* 21 the ring around it, cell 22 the Rhun area.
BigRaster(paints, orth, tex) ==
    [h |-> BigHeight,
     w |-> BigStarts[20],
     tex |-> tex,
     cells |-> [k \in 1..19 |->
                  Column(IF k % 2 = 1 THEN "stripe" ELSE "line",
                         BigStarts[k], BigStarts[k + 1], BigHeight,
                         paints[(k + 1) \div 2], k)]
               \o << OrthancBox(orth),
                     Ring(OrthancBox(orth), paints[2], 20),
                     RhunBox(paints[8]) >>]

\* The colours each stripe of the large layout may carry.
BigPaintChoices ==
    << {ColY, ColG1},          \* [0, 782): holds (452, 769)
       {ColY},                 \* [783, 834): holds (395, 796)
       {ColG1, ColG2, ColY},   \* [835, 855): holds (265, 845), (592, 850)
       {ColG2},                \* [856, 876): holds (579, 865)
       {ColY},                 \* [877, 1000)
       {ColK1},                \* [1001, 1200): centre (1100, 659)
       {ColK1, ColK2},         \* [1201, 1429): centre (1314, 659)
       {ColY},                 \* [1430, 1704): holds (565, 1638)
       {ColK2, ColY},          \* [1705, 1715): holds (515, 1708)
       {ColG1, ColK1} >>       \* [1716, 1720)

\* Colours of the Orthanc box: that of its stripe, or a dark one.
OrthancPaints == {ColY, ColK1}

\* A raster covered by a one-pixel checkerboard of gray levels 60 and 250:
\* the border mask of Steps 1-3 covers every pixel and no gray level is
\* below 45.  Cells carry the mean colour.
TexturedRaster == BigRaster([i \in 1..10 |-> ColTex], ColTex, TRUE)

\* The large layout in one colour.
PlainRaster == BigRaster([i \in 1..10 |-> ColY], ColY, FALSE)

\* The inputs of a later call into the same output directory.
LaterRasters == {NoImage, TexturedRaster, PlainRaster}

\* The large layout with the stripe [1430, 1704) cut in three by two border
\* lines, and with the border line between the two dark stripes at column
\* 1100, so that the first dark stripe, [1001, 1100), has its centre on the
\* left side of the Mordor rectangle: 12 stripes and 11 lines.
RhunStarts ==
    <<0, 782, 783, 834, 835, 855, 856, 876, 877, 1000, 1001, 1100, 1101,
      1429, 1430, 1636, 1637, 1643, 1644, 1704, 1705, 1715, 1716, 1720>>

RhunPaints ==
    <<ColG1, ColY, ColG1, ColG2, ColY, ColK1, ColK2, ColY, ColG1, ColY,
      ColK2, ColG1>>

\* Cells 1..23 are the columns, cell 24 the Orthanc box (painted like its
\* stripe), cell 25 the ring around it, cells 26..28 the parts of the Rhun
\* area between the border lines; (565, 1638) lies in cell 27.
RhunRaster ==
    [h |-> BigHeight,
     w |-> RhunStarts[24],
     tex |-> FALSE,
     cells |-> [k \in 1..23 |->
                  Column(IF k % 2 = 1 THEN "stripe" ELSE "line",
                         RhunStarts[k], RhunStarts[k + 1], BigHeight,
                         RhunPaints[(k + 1) \div 2], k)]
               \o << OrthancBox(ColY),
                     Ring(OrthancBox(ColY), ColY, 24),
                     Rect(1440, 1636, 380, 580, ColY, 15),
                     Rect(1637, 1643, 380, 580, ColG1, 17),
                     Rect(1644, 1680, 380, 580, ColY, 19) >>]

BigRasters ==
    {RhunRaster} \cup
    {BigRaster(p[1], p[2], FALSE) :
        p \in {q \in [1..10 -> BigPalette] :
                  \A i \in 1..10 : q[i] \in BigPaintChoices[i]} \X OrthancPaints}
    \cup {TexturedRaster}

Rasters == SmallRasters \cup BigRasters

-----------------------------------------------------------------------------
(* Cell geometry of the raster img *)

Cells == 1..Len(img.cells)

Kind(c) == img.cells[c].kind

IsColumn(c) == Kind(c) \in {"stripe", "line", "crumbs"}

Columns == {c \in Cells : IsColumn(c)}

HostOf(c) == img.cells[c].host

PaintOf(c) == img.cells[c].paint

Width(c) == img.cells[c].x1 - img.cells[c].x0

Height(c) == img.cells[c].y1 - img.cells[c].y0

\* x0 + (x0+1) + ... + (x1-1)
RangeSum(x0, x1) == ((x0 + x1 - 1) * (x1 - x0)) \div 2

RECURSIVE SetSum(_, _)
\* The sum of f[x] over x in S.
SetSum(S, f) ==
    IF S = {} THEN 0
    ELSE LET x == CHOOSE y \in S : TRUE IN f[x] + SetSum(S \ {x}, f)

\* Pixel count and coordinate sums of a box and of the ring around it.
BoxN(c) == Width(c) * Height(c)

BoxSumX(c) == Height(c) * RangeSum(img.cells[c].x0, img.cells[c].x1)

BoxSumY(c) == Width(c) * RangeSum(img.cells[c].y0, img.cells[c].y1)

RingN(c) == 2 * Width(c) + 2 * Height(c)

RingSumX(c) ==
    2 * RangeSum(img.cells[c].x0, img.cells[c].x1)
    + Height(c) * (img.cells[c].x0 - 1) + Height(c) * img.cells[c].x1

RingSumY(c) ==
    2 * RangeSum(img.cells[c].y0, img.cells[c].y1)
    + Width(c) * (img.cells[c].y0 - 1) + Width(c) * img.cells[c].y1

\* The boxes and rings cut out of column k.
Hosted(k) == {c \in Cells : ~IsColumn(c) /\ HostOf(c) = k}

\* Number of pixels of cell c (a column without the cells cut out of it).
CellN(c) ==
    IF Kind(c) = "rect" THEN BoxN(c)
    ELSE IF Kind(c) = "ring" THEN RingN(c)
    ELSE BoxN(c) - SetSum(Hosted(c),
                          [r \in Cells |-> IF Kind(r) = "rect" THEN BoxN(r)
                                           ELSE IF Kind(r) = "ring" THEN RingN(r)
                                           ELSE 0])

\* Sum of the x (resp. y) coordinates of the pixels of cell c.
CellSumX(c) ==
    IF Kind(c) = "rect" THEN BoxSumX(c)
    ELSE IF Kind(c) = "ring" THEN RingSumX(c)
    ELSE BoxSumX(c) - SetSum(Hosted(c),
                             [r \in Cells |-> IF Kind(r) = "rect" THEN BoxSumX(r)
                                              ELSE IF Kind(r) = "ring" THEN RingSumX(r)
                                              ELSE 0])

CellSumY(c) ==
    IF Kind(c) = "rect" THEN BoxSumY(c)
    ELSE IF Kind(c) = "ring" THEN RingSumY(c)
    ELSE BoxSumY(c) - SetSum(Hosted(c),
                             [r \in Cells |-> IF Kind(r) = "rect" THEN BoxSumY(r)
                                              ELSE IF Kind(r) = "ring" THEN RingSumY(r)
                                              ELSE 0])

\* The pixels of cell c on the outer frame of the raster (row 0, row h-1,
\* column 0, column w-1): cv2.watershed sets them to -1, so they belong to
\* no mask (ws == i) and are 0 in kingdom_map.
FrameN(c) ==
    IF ~IsColumn(c) THEN 0
    ELSE 2 * Width(c)
         + (IF img.cells[c].x0 = 0 THEN img.h - 2 ELSE 0)
         + (IF img.cells[c].x1 = img.w THEN img.h - 2 ELSE 0)

FrameSumX(c) ==
    IF ~IsColumn(c) THEN 0
    ELSE 2 * RangeSum(img.cells[c].x0, img.cells[c].x1)
         + (IF img.cells[c].x1 = img.w THEN (img.w - 1) * (img.h - 2) ELSE 0)

FrameSumY(c) ==
    IF ~IsColumn(c) THEN 0
    ELSE Width(c) * (img.h - 1)
         + (IF img.cells[c].x0 = 0 THEN RangeSum(1, img.h - 1) ELSE 0)
         + (IF img.cells[c].x1 = img.w THEN RangeSum(1, img.h - 1) ELSE 0)

\* The pixels of cell c off the frame.
InnerN(c) == CellN(c) - FrameN(c)

InnerSumX(c) == CellSumX(c) - FrameSumX(c)

InnerSumY(c) == CellSumY(c) - FrameSumY(c)

InBox(c, y, x) ==
    /\ img.cells[c].x0 <= x /\ x < img.cells[c].x1
    /\ img.cells[c].y0 <= y /\ y < img.cells[c].y1

\* Pixel (y, x) lies on one of the four sides around the box of ring c.
OnRing(c, y, x) ==
    \/ /\ y \in {img.cells[c].y0 - 1, img.cells[c].y1}
       /\ img.cells[c].x0 <= x /\ x < img.cells[c].x1
    \/ /\ x \in {img.cells[c].x0 - 1, img.cells[c].x1}
       /\ img.cells[c].y0 <= y /\ y < img.cells[c].y1

\* The cell that holds pixel (y, x); 0 when (y, x) is outside the raster.
CellAt(y, x) ==
    IF ~(0 <= y /\ y < img.h /\ 0 <= x /\ x < img.w) THEN 0
    ELSE LET cut == {c \in Cells : \/ (Kind(c) = "rect" /\ InBox(c, y, x))
                                    \/ (Kind(c) = "ring" /\ OnRing(c, y, x))}
         IN  IF cut # {} THEN CHOOSE c \in cut : TRUE
             ELSE CHOOSE c \in Columns : InBox(c, y, x)

\* (field == v).sum() for a field that covers the frame
Count(field, v) ==
    SetSum({c \in Cells : field[c] = v}, [c \in Cells |-> CellN(c)])

\* (field == v).sum() for ws and kingdom_map, whose frame pixels are -1
\* and 0
InnerCount(field, v) ==
    SetSum({c \in Cells : field[c] = v}, [c \in Cells |-> InnerN(c)])

\* field.max() of a label field
FieldMax(field) == CHOOSE v \in {field[c] : c \in Cells} :
                       \A c \in Cells : field[c] <= v

-----------------------------------------------------------------------------
(* The output directory *)

NoFile == "absent"

Unset == "unset"

\* masks maps the kid of every file masks/kingdom_<kid>.png to its content.
EmptyFS ==
    [dir |-> FALSE, mask_dir |-> FALSE, label_map |-> NoFile,
     region_data |-> NoFile, masks |-> <<>>, colored |-> FALSE,
     overlay |-> FALSE, zip |-> NoFile]

-----------------------------------------------------------------------------
(* Initial state: extract_kingdoms(input_image_path, output_dir) is called *)

Init ==
    /\ run = 1
    /\ pc = "load"
    /\ img \in Rasters \cup {NoImage}
    /\ fs = EmptyFS
    /\ edt_tie = Unset
    /\ border_fixed = {}
    /\ rescued_blob_masks = <<>>
    /\ blob_id = 0
    /\ ws = <<>>
    /\ num_labels = 0
    /\ region_colors = <<>>
    /\ region_sizes = <<>>
    /\ region_hues = <<>>
    /\ region_sats = <<>>
    /\ protected_region_ids = {}
    /\ adjacency = {}
    /\ pairs = <<>>
    /\ parent = <<>>
    /\ rnk = <<>>
    /\ pass_num = 0
    /\ pidx = 0
    /\ groups = <<>>
    /\ gavg = <<>>
    /\ gsz = <<>>
    /\ ghue = <<>>
    /\ gsat = <<>>
    /\ merged = 0
    /\ all_kingdoms = <<>>
    /\ kingdom_map = <<>>
    /\ km = <<>>
    /\ km_final = <<>>
    /\ num_k = 0
    /\ kingdom_data = <<>>

mergeVars == <<parent, rnk, pass_num, pidx, groups, gavg, gsz, ghue, gsat, merged>>

regionVars == <<ws, num_labels, region_colors, region_sizes, region_hues,
                region_sats, protected_region_ids>>

mapVars == <<all_kingdoms, kingdom_map, km, km_final, num_k, kingdom_data>>

-----------------------------------------------------------------------------
(* Load image (lines 41-50) *)

\* Variant of LoadFails: the directories of lines 529-531 are made before
\* the image is looked at.
LoadFailsLate ==
    /\ pc = "load"
    /\ img = NoImage
    /\ pc' = "aborted"
    /\ fs' = [fs EXCEPT !.dir = TRUE, !.mask_dir = TRUE]
    /\ UNCHANGED <<run, borderVars, img, edt_tie, regionVars, adjacency, pairs, mergeVars, mapVars>>

\* img is None: report and return before anything else runs.
LoadFails ==
    /\ pc = "load"
    /\ img = NoImage
    /\ pc' = "aborted"
    /\ UNCHANGED <<run, borderVars, img, fs, edt_tie, regionVars, adjacency, pairs, mergeVars, mapVars>>

LoadOk ==
    /\ pc = "load"
    /\ img # NoImage
    /\ pc' = "segment"
    /\ UNCHANGED <<run, borderVars, img, fs, edt_tie, regionVars, adjacency, pairs, mergeVars, mapVars>>

-----------------------------------------------------------------------------
(* Steps 1-4: border detection, dark blob rescue, watershed (lines 52-176) *)

Stripes == {c \in Cells : Kind(c) = "stripe"}

\* A box whose colour differs from its stripe's is enclosed by detected
\* borders and becomes a seed of its own.
Seeded(c) == Kind(c) = "rect" /\ PaintOf(c) # PaintOf(HostOf(c))

\* cv2.connectedComponents numbers the seeds in raster order of their first
\* pixel: the stripes from left to right, then the seeded boxes from top to
\* bottom.
SeedLabel(c) ==
    IF Kind(c) = "stripe"
    THEN Cardinality({s \in Stripes : img.cells[s].x0 <= img.cells[c].x0})
    ELSE Cardinality(Stripes)
         + Cardinality({r \in Cells : Seeded(r) /\ img.cells[r].y0 <= img.cells[c].y0})

\* The watershed outcome with one seed per stripe and seeded box; the lines
\* and the rings around seeded boxes are ridge (-1).  An unseeded box and
\* its ring carry the label of their stripe.  The value is that of the
\* cell's pixels off the frame; the frame is -1.  The labels of crumbs are
\* left out of the numbering (line 155 skips them) and stand as 0.
StripeWs ==
    [c \in Cells |->
        IF Kind(c) = "stripe" THEN SeedLabel(c)
        ELSE IF Kind(c) = "line" THEN -1
        ELSE IF Kind(c) = "crumbs" THEN 0
        ELSE IF Kind(c) = "rect"
             THEN IF Seeded(c) THEN SeedLabel(c) ELSE SeedLabel(HostOf(c))
             ELSE IF Seeded(img.cells[c].inner) THEN -1 ELSE SeedLabel(HostOf(c))]

\* The outcome when the border mask leaves no seed (non_border is empty, so
\* cv2.connectedComponents returns the background label only).
NoSeedWs == [c \in Cells |-> 0]

Segmentations ==
    IF img.tex
    THEN { [ws |-> NoSeedWs, num_labels |-> 1] }
    ELSE { [ws |-> StripeWs,
            num_labels |-> Cardinality(Stripes)
                           + Cardinality({r \in Cells : Seeded(r)}) + 1] }

\* Minimum FineRegion size (line 156).
MinRegionSize == 50

\* Sum over the pixels of (field == v) off the frame of a per-pixel value.
PixelSum(field, v, val) ==
    SetSum({c \in Cells : field[c] = v}, [c \in Cells |-> val[c] * InnerN(c)])

\* img_rgb[field == v].mean(axis=0)
MeanColor(field, v) ==
    RatVec([i \in 1..3 |-> PixelSum(field, v, [c \in Cells |-> PaintOf(c).rgb[i]])],
           InnerCount(field, v))

\* Labels i in 1..num_labels-1 whose mask has at least 50 pixels.
FineRegions(seg) ==
    {i \in 1..(seg.num_labels - 1) : InnerCount(seg.ws, i) >= MinRegionSize}

\* Darkness cutoff of the blob rescue (line 82).
VeryDark == 35

\* Overlap a FineRegion needs with a rescued blob (line 173).
MinBlobOverlap == 100

\* Pixels of FineRegion i that are darker than the rescue cutoff.
DarkPixels(seg, i) ==
    SetSum({c \in Cells : seg.ws[c] = i /\ PaintOf(c).gray < VeryDark},
           [c \in Cells |-> InnerN(c)])

\* The sets protected_region_ids may be after line 174: FineRegions that
\* share more than 100 pixels with very dark pixels; which dark blobs are
\* rescued (size, compactness) is decided by OpenCV.
ProtectedChoices(seg) ==
    SUBSET {i \in FineRegions(seg) : DarkPixels(seg, i) > MinBlobOverlap}

Segment ==
    /\ pc = "segment"
    /\ \E seg \in Segmentations :
         /\ ws' = seg.ws
         /\ num_labels' = seg.num_labels
         /\ region_colors' = [i \in FineRegions(seg) |-> MeanColor(seg.ws, i)]
         /\ region_sizes' = [i \in FineRegions(seg) |-> InnerCount(seg.ws, i)]
         /\ region_hues' =
              [i \in FineRegions(seg) |->
                  Rat(PixelSum(seg.ws, i, [c \in Cells |-> PaintOf(c).hue]),
                      InnerCount(seg.ws, i))]
         /\ region_sats' =
              [i \in FineRegions(seg) |->
                  Rat(PixelSum(seg.ws, i, [c \in Cells |-> PaintOf(c).sat]),
                      InnerCount(seg.ws, i))]
         /\ protected_region_ids' \in ProtectedChoices(seg)
    /\ pc' = "adjacency"
    /\ UNCHANGED <<run, borderVars, img, fs, edt_tie, adjacency, pairs, mergeVars, mapVars>>

-----------------------------------------------------------------------------
(* Step 5: adjacency graph (lines 178-189) *)

Max(a, b) == IF a >= b THEN a ELSE b

\* Pixel (y, x) lies on the outer frame of the raster.
OnFrame(y, x) == y = 0 \/ y = img.h - 1 \/ x = 0 \/ x = img.w - 1

\* Pixel columns of the ridge lines, and the rings that are ridge.
RidgeXs ==
    UNION {img.cells[c].x0 .. (img.cells[c].x1 - 1) :
              c \in {k \in Columns : ws[k] = -1}}

RidgeRings == {c \in Cells : Kind(c) = "ring" /\ ws[c] = -1}

\* Pixels of ring c in the rows above row y.
RingRowsBefore(c, y) ==
    IF y <= img.cells[c].y0 - 1 THEN 0
    ELSE IF y <= img.cells[c].y1 THEN Width(c) + 2 * (y - img.cells[c].y0)
    ELSE 2 * Width(c) + 2 * Height(c)

\* Pixels of ring c in row y left of column x.
RingInRowBefore(c, y, x) ==
    IF y = img.cells[c].y0 - 1 \/ y = img.cells[c].y1
    THEN Max(0, Min(x - img.cells[c].x0, Width(c)))
    ELSE IF img.cells[c].y0 <= y /\ y < img.cells[c].y1
         THEN (IF x > img.cells[c].x0 - 1 THEN 1 ELSE 0)
              + (IF x > img.cells[c].x1 THEN 1 ELSE 0)
         ELSE 0

\* The index of ridge pixel (y, x) in bys, bxs: np.where lists the pixels
\* of ws == -1 row by row.  Rows 0 and h-1 are ridge throughout; another
\* row holds the two frame pixels, the ridge lines and the ring pixels.
RidgeIndex(y, x) ==
    (IF y = 0 THEN 0
     ELSE img.w + (y - 1) * (2 + Cardinality(RidgeXs))
          + SetSum(RidgeRings, [c \in Cells |-> RingRowsBefore(c, y)]))
    + (IF y = 0 \/ y = img.h - 1 THEN x
       ELSE (IF x > 0 THEN 1 ELSE 0)
            + Cardinality({x2 \in RidgeXs : x2 < x})
            + SetSum(RidgeRings, [c \in Cells |-> RingInRowBefore(c, y, x)]))

\* range(0, len(bys), 2): the ridge pixels with an even index.
Sampled(y, x) == RidgeIndex(y, x) % 2 = 0

\* Boxes and rings lie more than four columns away from every ridge line,
\* so the patch of a ridge pixel within two columns of a line holds no
\* pixel of a box or ring and the same labels in every row.
LinesClearOfBoxes ==
    \A c \in Cells : ~IsColumn(c) =>
        \A l \in {k \in Cells : Kind(k) = "line"} :
            \/ img.cells[l].x1 - 1 < img.cells[c].x0 - 5
            \/ img.cells[l].x0 > img.cells[c].x1 + 4

\* The column cell that holds pixel column x.
ColAt(x) == CHOOSE k \in Columns : img.cells[k].x0 <= x /\ x < img.cells[k].x1

\* Labels of the 5 x 5 patch around a ridge pixel of pixel column x near a
\* ridge line that are positive and FineRegions (line 184-185); columns 0
\* and w-1 are frame.
ValidNearLine(x) ==
    {l \in {ws[ColAt(x2)] : x2 \in Max(1, x - 2)..Min(img.w - 2, x + 2)} :
        l > 0 /\ l \in DOMAIN region_colors}

\* The same for a pixel of ring c: its patch holds pixels of the box and of
\* the stripe around it, and of no other cell.
ValidOnRing(c) ==
    {l \in {ws[img.cells[c].inner], ws[HostOf(c)]} :
        l > 0 /\ l \in DOMAIN region_colors}

\* Some ridge pixel of pixel column x is sampled: rows 0 and h-1 are ridge
\* in every column, the other rows in the columns of the lines only.
SampledInColumn(x) ==
    \/ Sampled(0, x)
    \/ Sampled(img.h - 1, x)
    \/ x \in RidgeXs /\ \E y \in 1..(img.h - 2) : Sampled(y, x)

\* Some pixel of ring c is sampled.
SampledOnRing(c) ==
    \E p \in ((img.cells[c].y0 - 1)..img.cells[c].y1)
             \X ((img.cells[c].x0 - 1)..img.cells[c].x1) :
        OnRing(c, p[1], p[2]) /\ Sampled(p[1], p[2])

\* The patches (as label sets) of the sampled ridge pixels that may hold
\* two labels: those within two columns of a ridge line and those of the
\* rings.
SampledPatches ==
    {ValidNearLine(x) :
        x \in {x2 \in UNION {(xl - 2)..(xl + 2) : xl \in RidgeXs} :
                  0 <= x2 /\ x2 < img.w /\ SampledInColumn(x2)}}
    \cup {ValidOnRing(c) : c \in {r \in RidgeRings : SampledOnRing(r)}}

BuildAdjacency ==
    /\ pc = "adjacency"
    /\ adjacency' = {e \in UNION {v \X v : v \in SampledPatches} : e[1] # e[2]}
    /\ pc' = "sort"
    /\ UNCHANGED <<run, borderVars, img, fs, edt_tie, regionVars, pairs, mergeVars, mapVars>>

-----------------------------------------------------------------------------
(* Step 6: union-find and the sorted pair list (lines 192-211) *)

\* One entry of pairs.  dist holds the squared distance as <<num, den>>;
\* the order of the square roots is the order of the squares.
PairOf(r, n) ==
    [dist |-> DistSq(region_colors[r], region_colors[n]), r |-> r, n |-> n]

\* Variant of TupleLess: the key is the distance alone.
TupleLessByDist(t, u) ==
    RatLess(t.dist[1], t.dist[2], u.dist[1], u.dist[2])

\* Python's tuple order on (dist, r, n).
TupleLess(t, u) ==
    \/ RatLess(t.dist[1], t.dist[2], u.dist[1], u.dist[2])
    \/ /\ ~RatLess(u.dist[1], u.dist[2], t.dist[1], t.dist[2])
       /\ \/ t.r < u.r
          \/ t.r = u.r /\ t.n < u.n

\* Insert t behind every entry that is not greater than it (sorted() is
\* stable).
Insert(seq, t) ==
    LET k == Cardinality({i \in 1..Len(seq) : ~TupleLess(t, seq[i])})
    IN  SubSeq(seq, 1, k) \o <<t>> \o SubSeq(seq, k + 1, Len(seq))

\* Variant of SortedSeq: the list is left in the order it was built in.
Unsorted(raw, n) == SubSeq(raw, 1, n)

RECURSIVE SortedSeq(_, _)
\* sorted(raw): the first n entries of raw, sorted.
SortedSeq(raw, n) ==
    IF n = 0 THEN <<>> ELSE Insert(SortedSeq(raw, n - 1), raw[n])

\* The entries of the list comprehension of line 209-210.
PairSet == {PairOf(e[1], e[2]) : e \in {f \in adjacency : f[1] < f[2]}}

\* Longest list whose every listing order is explored.
MaxPermuted == 3

RECURSIVE Ascending(_)
\* The entries of S listed by ascending (r, n).
Ascending(S) ==
    IF S = {} THEN <<>>
    ELSE LET m == CHOOSE t \in S :
                    \A u \in S : t.r < u.r \/ (t.r = u.r /\ t.n <= u.n)
         IN  <<m>> \o Ascending(S \ {m})

Reverse(seq) == [i \in 1..Len(seq) |-> seq[Len(seq) + 1 - i]]

\* The orders in which adjacency.items() and the neighbour sets may list
\* the pairs: every order for short lists, the ascending and the
\* descending listing for longer ones.
RawOrders ==
    IF Cardinality(PairSet) <= MaxPermuted
    THEN {q \in [1..Cardinality(PairSet) -> PairSet] :
             \A i, j \in DOMAIN q : i # j => q[i] # q[j]}
    ELSE {Ascending(PairSet), Reverse(Ascending(PairSet))}

SortPairs ==
    /\ pc = "sort"
    /\ parent' = [i \in DOMAIN region_colors |-> i]
    /\ rnk' = [i \in DOMAIN region_colors |-> 0]
    /\ \E raw \in RawOrders : pairs' = SortedSeq(raw, Len(raw))
    /\ pass_num' = 0
    /\ pc' = "pass"
    /\ UNCHANGED <<run, borderVars, img, fs, edt_tie, regionVars, adjacency, pidx, groups,
                   gavg, gsz, ghue, gsat, merged, mapVars>>

-----------------------------------------------------------------------------
(* Step 6: merge passes (lines 195-289) *)

RECURSIVE Find(_, _)
\* find(x) with path halving: the root of x and the parent map it leaves.
Find(p, x) ==
    IF p[x] = x THEN [root |-> x, parent |-> p]
    ELSE LET p2 == [p EXCEPT ![x] = p[p[x]]] IN Find(p2, p2[x])

\* Variant of Union: the rank of the new root is never raised.
UnionRankKept(p, rk, a, b) ==
    LET fa == Find(p, a)
        fb == Find(fa.parent, b)
        hi == IF rk[fa.root] < rk[fb.root] THEN fb.root ELSE fa.root
        lo == IF rk[fa.root] < rk[fb.root] THEN fa.root ELSE fb.root
    IN  IF fa.root = fb.root THEN [parent |-> fb.parent, rnk |-> rk]
        ELSE [parent |-> [fb.parent EXCEPT ![lo] = hi], rnk |-> rk]

\* union(a, b) by rank: the parent map and the ranks it leaves.
Union(p, rk, a, b) ==
    LET fa == Find(p, a)
        fb == Find(fa.parent, b)
        hi == IF rk[fa.root] < rk[fb.root] THEN fb.root ELSE fa.root
        lo == IF rk[fa.root] < rk[fb.root] THEN fa.root ELSE fb.root
    IN  IF fa.root = fb.root THEN [parent |-> fb.parent, rnk |-> rk]
        ELSE [parent |-> [fb.parent EXCEPT ![lo] = hi],
              rnk |-> IF rk[hi] = rk[lo] THEN [rk EXCEPT ![hi] = @ + 1] ELSE rk]

\* dict.get(k, d)
Get(f, k, d) == IF k \in DOMAIN f THEN f[k] ELSE d

\* d[k] = v
Put(f, k, v) == [x \in (DOMAIN f) \cup {k} |-> IF x = k THEN v ELSE f[x]]

SetMin(S) == CHOOSE x \in S : \A y \in S : x <= y

RECURSIVE GroupScan(_, _, _)
\* for rid in region_colors: groups[find(rid)].append(rid)  (line 215-216);
\* region_colors lists its keys in ascending order.
GroupScan(todo, p, g) ==
    IF todo = {} THEN [parent |-> p, groups |-> g]
    ELSE LET rid == SetMin(todo)
             f == Find(p, rid)
         IN  GroupScan(todo \ {rid}, f.parent,
                       Put(g, f.root, Append(Get(g, f.root, <<>>), rid)))

\* sum(region_sizes[m] for m in members)
MemberSize(members) ==
    SumF([k \in 1..Len(members) |-> region_sizes[members[k]]], Len(members))

\* region_colors[m] * region_sizes[m], channel i: the colour sum of m.
ColorSum(m, i) ==
    region_colors[m].n[i] * (region_sizes[m] \div region_colors[m].d)

\* sum(region_colors[m] * region_sizes[m] for m in members) / t
MemberColor(members) ==
    RatVec([i \in 1..3 |->
               SumF([k \in 1..Len(members) |-> ColorSum(members[k], i)],
                    Len(members))],
           MemberSize(members))

\* sum(val[m] * region_sizes[m] for m in members) / t for a scalar mean.
MemberMean(val, members) ==
    Rat(SumF([k \in 1..Len(members) |->
                 val[members[k]].n * (region_sizes[members[k]] \div val[members[k]].d)],
             Len(members)),
        MemberSize(members))

\* Number of passes (line 213).
MaxPasses == 5

PassStart ==
    /\ pc = "pass"
    /\ LET scan == GroupScan(DOMAIN region_colors, parent, <<>>)
       IN  /\ parent' = scan.parent
           /\ groups' = scan.groups
           /\ gavg' = [root \in DOMAIN scan.groups |-> MemberColor(scan.groups[root])]
           /\ gsz' = [root \in DOMAIN scan.groups |-> MemberSize(scan.groups[root])]
           /\ ghue' = [root \in DOMAIN scan.groups |->
                          MemberMean(region_hues, scan.groups[root])]
           /\ gsat' = [root \in DOMAIN scan.groups |->
                          MemberMean(region_sats, scan.groups[root])]
    /\ merged' = 0
    /\ pidx' = 1
    /\ pc' = "eval"
    /\ UNCHANGED <<run, borderVars, img, fs, edt_tie, regionVars, adjacency, pairs, rnk,
                   pass_num, mapVars>>

\* c * sz for a rational colour, as numerators over denominator d.
Scaled(c, sz) ==
    LET g == GCD(sz, c.d)
    IN  [n |-> [i \in 1..3 |-> c.n[i] * (sz \div g)], d |-> c.d \div g]

\* (c1*sz1 + c2*sz2) / (sz1+sz2)
Blend(c1, sz1, c2, sz2) ==
    LET a == Scaled(c1, sz1)
        b == Scaled(c2, sz2)
    IN  RatVec([i \in 1..3 |-> a.n[i] * b.d + b.n[i] * a.d],
               a.d * b.d * (sz1 + sz2))

\* (h1*sz1 + h2*sz2) / (sz1+sz2) for scalars
BlendScalar(h1, sz1, h2, sz2) ==
    LET g1 == GCD(sz1, h1.d)
        g2 == GCD(sz2, h2.d)
        d1 == h1.d \div g1
        d2 == h2.d \div g2
    IN  Rat(h1.n * (sz1 \div g1) * d2 + h2.n * (sz2 \div g2) * d1,
            d1 * d2 * (sz1 + sz2))

\* abs(a - b) for rational scalars
AbsDiff(a, b) == Rat(Abs(a.n * b.d - b.n * a.d), a.d * b.d)

\* min(abs(h1 - h2), 180 - abs(h1 - h2))  (line 261)
HueDiff(h1, h2) ==
    LET x == AbsDiff(h1, h2)
    IN  IF x.n <= 90 * x.d THEN x ELSE Rat(180 * x.d - x.n, x.d)

\* a > v for a rational a and an integer v
Above(a, v) == a.n > v * a.d

\* bri < v, where bri = (np.mean(c1) + np.mean(c2)) / 2  (line 263)
BriBelow(c1, c2, v) ==
    (c1.n[1] + c1.n[2] + c1.n[3]) * c2.d + (c2.n[1] + c2.n[2] + c2.n[3]) * c1.d
        < 6 * v * c1.d * c2.d

\* Variant of Threshold50: no scaling below brightness 80.
Threshold50DarkUnscaled(c1, c2, h1, h2, s1, s2) ==
    LET hue_diff == HueDiff(h1, h2)
        base == IF BriBelow(c1, c2, 50) THEN 1400
                ELSE IF BriBelow(c1, c2, 80) THEN 1750
                ELSE IF BriBelow(c1, c2, 120) THEN 2000 ELSE 2200
    IN  IF BriBelow(c1, c2, 80)
        THEN base
        ELSE IF Above(hue_diff, 12) THEN base \div 2
             ELSE IF Above(hue_diff, 6) THEN (base * 3) \div 4 ELSE base

\* Fifty times the adjusted threshold of lines 266-275 (an integer in every
\* branch).
Threshold50(c1, c2, h1, h2, s1, s2) ==
    LET hue_diff == HueDiff(h1, h2)
        sat_diff == AbsDiff(s1, s2)
        base == IF BriBelow(c1, c2, 50) THEN 1400
                ELSE IF BriBelow(c1, c2, 80) THEN 1750
                ELSE IF BriBelow(c1, c2, 120) THEN 2000 ELSE 2200
    IN  IF BriBelow(c1, c2, 80)
        THEN LET b1 == IF Above(hue_diff, 10) THEN (base * 3) \div 10
                       ELSE IF Above(hue_diff, 5) THEN base \div 2 ELSE base
             IN  IF Above(sat_diff, 20) THEN (b1 * 6) \div 10 ELSE b1
        ELSE IF Above(hue_diff, 12) THEN base \div 2
             ELSE IF Above(hue_diff, 6) THEN (base * 3) \div 4 ELSE base

\* Fifty times the threshold for two protected sets (line 245).
ProtectedThreshold50 == 750

\* Variant of Vetoed: the veto of line 238 left out.
VetoedNever(a_prot, b_prot) == FALSE

\* if a_prot != b_prot: continue  (line 238)
Vetoed(a_prot, b_prot) == a_prot # b_prot

\* Variant of Merges: <= in place of <.
MergesAtEquality(c1, c2, t50) ==
    DistBelow(c1, c2, t50) \/ DistEqual(c1, c2, t50)

\* if dist_rgb < base  (line 277; line 245 with base 15)
Merges(c1, c2, t50) == DistBelow(c1, c2, t50)

\* Variant of CurPair: the first region in place of the pair's smaller one.
CurPairWithFirst == [pairs[pidx] EXCEPT !.r = 1]

\* The pair the inner loop is at, and the two finds of line 228.
CurPair == pairs[pidx]

FindA == Find(parent, CurPair.r)

FindB == Find(FindA.parent, CurPair.n)

\* bool(set(groups.get(root, [root])) & protected_region_ids)  (line 233-236)
GroupProtected(root) ==
    \E k \in DOMAIN Get(groups, root, <<root>>) :
        Get(groups, root, <<root>>)[k] \in protected_region_ids

AtPair == pc = "eval" /\ pidx <= Len(pairs)

restOfPass ==
    <<run, borderVars, img, fs, edt_tie, regionVars, adjacency, pairs, pass_num, groups, mapVars>>

\* if ra == rb: continue
EvalSameRoot ==
    /\ AtPair
    /\ FindA.root = FindB.root
    /\ parent' = FindB.parent
    /\ pidx' = pidx + 1
    /\ UNCHANGED <<pc, rnk, gavg, gsz, ghue, gsat, merged, restOfPass>>

\* if a_prot != b_prot: continue
EvalVeto ==
    /\ AtPair
    /\ FindA.root # FindB.root
    /\ Vetoed(GroupProtected(FindA.root), GroupProtected(FindB.root))
    /\ parent' = FindB.parent
    /\ pidx' = pidx + 1
    /\ UNCHANGED <<pc, rnk, gavg, gsz, ghue, gsat, merged, restOfPass>>

\* Variant of EvalBothProtected: two protected sets are judged by the
\* adjusted threshold of the normal rule.
EvalBothProtectedNormalRule ==
    /\ AtPair
    /\ FindA.root # FindB.root
    /\ ~Vetoed(GroupProtected(FindA.root), GroupProtected(FindB.root))
    /\ GroupProtected(FindA.root) /\ GroupProtected(FindB.root)
    /\ LET ra == FindA.root
           rb == FindB.root
           c1 == Get(gavg, ra, region_colors[ra])
           c2 == Get(gavg, rb, region_colors[rb])
           sz1 == Get(gsz, ra, 1)
           sz2 == Get(gsz, rb, 1)
           u == Union(FindB.parent, rnk, ra, rb)
           nr == Find(u.parent, ra)
       IN  IF Merges(c1, c2, Threshold50(c1, c2, Get(ghue, ra, Rat(0, 1)),
                                         Get(ghue, rb, Rat(0, 1)),
                                         Get(gsat, ra, Rat(0, 1)),
                                         Get(gsat, rb, Rat(0, 1))))
           THEN /\ parent' = nr.parent
                /\ rnk' = u.rnk
                /\ gavg' = Put(gavg, nr.root, Blend(c1, sz1, c2, sz2))
                /\ gsz' = Put(gsz, nr.root, sz1 + sz2)
                /\ merged' = merged + 1
           ELSE /\ parent' = FindB.parent
                /\ UNCHANGED <<rnk, gavg, gsz, merged>>
    /\ pidx' = pidx + 1
    /\ UNCHANGED <<pc, ghue, gsat, restOfPass>>

\* if a_prot and b_prot: merge only below 15; ghue and gsat are not
\* updated (lines 241-252).
EvalBothProtected ==
    /\ AtPair
    /\ FindA.root # FindB.root
    /\ ~Vetoed(GroupProtected(FindA.root), GroupProtected(FindB.root))
    /\ GroupProtected(FindA.root) /\ GroupProtected(FindB.root)
    /\ LET ra == FindA.root
           rb == FindB.root
           c1 == Get(gavg, ra, region_colors[ra])
           c2 == Get(gavg, rb, region_colors[rb])
           sz1 == Get(gsz, ra, 1)
           sz2 == Get(gsz, rb, 1)
           u == Union(FindB.parent, rnk, ra, rb)
           nr == Find(u.parent, ra)
       IN  IF Merges(c1, c2, ProtectedThreshold50)
           THEN /\ parent' = nr.parent
                /\ rnk' = u.rnk
                /\ gavg' = Put(gavg, nr.root, Blend(c1, sz1, c2, sz2))
                /\ gsz' = Put(gsz, nr.root, sz1 + sz2)
                /\ merged' = merged + 1
           ELSE /\ parent' = FindB.parent
                /\ UNCHANGED <<rnk, gavg, gsz, merged>>
    /\ pidx' = pidx + 1
    /\ UNCHANGED <<pc, ghue, gsat, restOfPass>>

\* Normal merging with hue-aware thresholds (lines 254-285).
EvalNormal ==
    /\ AtPair
    /\ FindA.root # FindB.root
    /\ ~Vetoed(GroupProtected(FindA.root), GroupProtected(FindB.root))
    /\ ~(GroupProtected(FindA.root) /\ GroupProtected(FindB.root))
    /\ LET ra == FindA.root
           rb == FindB.root
           c1 == Get(gavg, ra, region_colors[ra])
           c2 == Get(gavg, rb, region_colors[rb])
           h1 == Get(ghue, ra, Rat(0, 1))
           h2 == Get(ghue, rb, Rat(0, 1))
           s1_v == Get(gsat, ra, Rat(0, 1))
           s2_v == Get(gsat, rb, Rat(0, 1))
           sz1 == Get(gsz, ra, 1)
           sz2 == Get(gsz, rb, 1)
           u == Union(FindB.parent, rnk, ra, rb)
           nr == Find(u.parent, ra)
       IN  IF Merges(c1, c2, Threshold50(c1, c2, h1, h2, s1_v, s2_v))
           THEN /\ parent' = nr.parent
                /\ rnk' = u.rnk
                /\ gavg' = Put(gavg, nr.root, Blend(c1, sz1, c2, sz2))
                /\ gsz' = Put(gsz, nr.root, sz1 + sz2)
                /\ ghue' = Put(ghue, nr.root, BlendScalar(h1, sz1, h2, sz2))
                /\ gsat' = Put(gsat, nr.root, BlendScalar(s1_v, sz1, s2_v, sz2))
                /\ merged' = merged + 1
           ELSE /\ parent' = FindB.parent
                /\ UNCHANGED <<rnk, gavg, gsz, ghue, gsat, merged>>
    /\ pidx' = pidx + 1
    /\ UNCHANGED <<pc, restOfPass>>

\* Variant of PassEnd: the break of lines 288-289 left out.
PassEndNoBreak ==
    /\ pc = "eval"
    /\ pidx > Len(pairs)
    /\ IF pass_num = MaxPasses - 1
       THEN pc' = "step7" /\ UNCHANGED pass_num
       ELSE pc' = "pass" /\ pass_num' = pass_num + 1
    /\ UNCHANGED <<run, borderVars, img, fs, edt_tie, regionVars, adjacency, pairs, parent,
                   rnk, pidx, groups, gavg, gsz, ghue, gsat, merged, mapVars>>

\* End of the inner loop: stop after a pass without merges or after the
\* fifth pass (lines 213, 288-289).
PassEnd ==
    /\ pc = "eval"
    /\ pidx > Len(pairs)
    /\ IF merged = 0 \/ pass_num = MaxPasses - 1
       THEN pc' = "step7" /\ UNCHANGED pass_num
       ELSE pc' = "pass" /\ pass_num' = pass_num + 1
    /\ UNCHANGED <<run, borderVars, img, fs, edt_tie, regionVars, adjacency, pairs, parent,
                   rnk, pidx, groups, gavg, gsz, ghue, gsat, merged, mapVars>>

-----------------------------------------------------------------------------
(* Step 7: initial kingdom map (lines 291-317) *)

\* sum(region_sizes.get(m, 0) for m in members)
GroupTotal(members) ==
    SumF([k \in 1..Len(members) |-> Get(region_sizes, members[k], 0)],
         Len(members))

\* The position of root in sorted_groups: sorted() is stable, and
\* final_groups lists its roots in the order of their first member.
GroupRank(g, root) ==
    1 + Cardinality({r \in DOMAIN g :
                        \/ GroupTotal(g[r]) > GroupTotal(g[root])
                        \/ /\ GroupTotal(g[r]) = GroupTotal(g[root])
                           /\ g[r][1] < g[root][1]})

\* The cells whose ws label is one of members.
MemberCells(members) ==
    {c \in Cells : \E k \in 1..Len(members) : ws[c] = members[k]}

\* The entry of all_kingdoms for the group of root, given its kid.
KingdomEntry(g, root, kid) ==
    LET members == g[root]
        total == GroupTotal(members)
        mask == MemberCells(members)
        n == SetSum(mask, [c \in Cells |-> InnerN(c)])
    IN  [id |-> kid,
         size |-> total,
         avg_color |-> [i \in 1..3 |->
                          SumF([k \in 1..Len(members) |-> ColorSum(members[k], i)],
                               Len(members)) \div total],
         protected |-> \E k \in 1..Len(members) :
                           members[k] \in protected_region_ids,
         center |-> << SetSum(mask, [c \in Cells |-> InnerSumX(c)]) \div n,
                       SetSum(mask, [c \in Cells |-> InnerSumY(c)]) \div n >>]

Step7 ==
    /\ pc = "step7"
    /\ LET scan == GroupScan(DOMAIN region_colors, parent, <<>>)
           g == scan.groups
           rootAt == [kid \in 1..Cardinality(DOMAIN g) |->
                         CHOOSE r \in DOMAIN g : GroupRank(g, r) = kid]
       IN  /\ parent' = scan.parent
           /\ all_kingdoms' = [kid \in DOMAIN rootAt |-> KingdomEntry(g, rootAt[kid], kid)]
           /\ kingdom_map' =
                [c \in Cells |->
                    IF \E r \in DOMAIN g : c \in MemberCells(g[r])
                    THEN GroupRank(g, CHOOSE r \in DOMAIN g : c \in MemberCells(g[r]))
                    ELSE 0]
    /\ pc' = "step8"
    /\ UNCHANGED <<run, borderVars, img, fs, edt_tie, regionVars, adjacency, pairs, rnk, pass_num,
                   pidx, groups, gavg, gsz, ghue, gsat, merged, km, km_final,
                   num_k, kingdom_data>>

-----------------------------------------------------------------------------
(* Step 8: gap fill (lines 319-326) *)

\* The tie rules of ndimage.distance_transform_edt the model explores: of
\* two claimed cells at the same distance, take the first or the second of
\* <<left, right>> (columns) and <<box, stripe>> (rings).
TieRules == {"first", "second"}

Claimed(field) == {c \in Cells : field[c] > 0}

\* The claimed column nearest to pixel column x on the left (right), or 0.
LeftOf(field, x) ==
    LET L == {c \in Claimed(field) \cap Columns : img.cells[c].x1 <= x}
    IN  IF L = {} THEN 0
        ELSE CHOOSE c \in L : \A d \in L : img.cells[d].x1 <= img.cells[c].x1

RightOf(field, x) ==
    LET R == {c \in Claimed(field) \cap Columns : img.cells[c].x0 > x}
    IN  IF R = {} THEN 0
        ELSE CHOOSE c \in R : \A d \in R : img.cells[d].x0 >= img.cells[c].x0

\* The claimed cells nearest to the unclaimed cell c, as <<first, second>>
\* (equal unless two are at the same distance).
Nearest(field, c) ==
    IF Kind(c) = "ring" /\ field[img.cells[c].inner] > 0 /\ field[HostOf(c)] > 0
    THEN <<img.cells[c].inner, HostOf(c)>>
    ELSE IF ~IsColumn(c) /\ field[HostOf(c)] > 0 THEN <<HostOf(c), HostOf(c)>>
    ELSE LET x == img.cells[HostOf(c)].x0
             l == LeftOf(field, x)
             r == RightOf(field, x)
             dl == x - img.cells[l].x1 + 1
             dr == img.cells[r].x0 - x
         IN  IF l = 0 THEN <<r, r>>
             ELSE IF r = 0 THEN <<l, l>>
             ELSE IF dl < dr THEN <<l, l>>
             ELSE IF dr < dl THEN <<r, r>>
             ELSE <<l, r>>

\* Some unclaimed cell has two claimed cells at the same distance.
HasTie(field) ==
    /\ Claimed(field) # {}
    /\ \E c \in Cells \ Claimed(field) :
           Nearest(field, c)[1] # Nearest(field, c)[2]

\* Variant of Fill: every unclaimed cell takes the label of the first
\* claimed cell, however far.
FillFromFirst(field, tie) ==
    IF Claimed(field) = {} THEN field
    ELSE [c \in Cells |->
             IF field[c] > 0 THEN field[c] ELSE field[SetMin(Claimed(field))]]

\* field[unassigned] = field[nearest[0][unassigned], nearest[1][unassigned]].
\* Without any claimed pixel every index read yields 0.
Fill(field, tie) ==
    IF Claimed(field) = {} THEN field
    ELSE [c \in Cells |->
             IF field[c] > 0 THEN field[c]
             ELSE field[Nearest(field, c)[IF tie = "first" THEN 1 ELSE 2]]]

\* The cells are fine enough for Fill: an unclaimed column is one pixel
\* wide or has claimed columns on one side only, unless nothing is claimed,
\* so all its pixels have the same nearest cell.
FillExact(field) ==
    Claimed(field) # {} =>
        \A c \in Columns \ Claimed(field) :
            \/ Width(c) = 1
            \/ LeftOf(field, img.cells[c].x0) = 0
            \/ RightOf(field, img.cells[c].x0) = 0

Step8 ==
    /\ pc = "step8"
    /\ edt_tie' \in IF HasTie(kingdom_map) THEN TieRules ELSE {"first"}
    /\ km' = Fill(kingdom_map, edt_tie')
    /\ pc' = "step9"
    /\ UNCHANGED <<run, borderVars, img, fs, regionVars, adjacency, pairs, mergeVars,
                   all_kingdoms, kingdom_map, km_final, num_k, kingdom_data>>

-----------------------------------------------------------------------------
(* Step 9: absorb tiny regions (lines 328-342) *)

\* Reach of three dilations with a 5 x 5 kernel.
DilateReach == 6

\* Every box and its ring lie more than DilateReach + 1 columns inside
\* their stripe, so the dilation of a box stays inside its stripe and the
\* dilation of a neighbouring column reaches no box.
BoxesClearOfEdges ==
    \A c \in Cells : ~IsColumn(c) =>
        /\ img.cells[HostOf(c)].x0 + DilateReach + 1 <= img.cells[c].x0
        /\ img.cells[c].x1 + DilateReach + 1 <= img.cells[HostOf(c)].x1

\* The pixel columns outside the columns of S within reach of one of them.
MarginXs(S) ==
    {x \in UNION {((img.cells[c].x0 - DilateReach)..(img.cells[c].x0 - 1))
                  \cup (img.cells[c].x1..(img.cells[c].x1 + DilateReach - 1)) :
                     c \in S \cap Columns} :
        0 <= x /\ x < img.w /\ ColAt(x) \notin S}

\* The ring around box b, or 0.
RingOf(b) ==
    IF \E r \in Cells : Kind(r) = "ring" /\ img.cells[r].inner = b
    THEN CHOOSE r \in Cells : Kind(r) = "ring" /\ img.cells[r].inner = b
    ELSE 0

\* Pixels of the box cell b no deeper than depth layers from its sides.
BoxLayers(b, depth) ==
    BoxN(b) - Max(0, Width(b) - 2 * depth) * Max(0, Height(b) - 2 * depth)

\* Number of pixels of cell d (outside S) in the dilation of the cells S.
ZonePixels(S, d) ==
    IF IsColumn(d)
    THEN Cardinality({x \in MarginXs(S) : ColAt(x) = d}) * img.h
         + SetSum({b \in S : Kind(b) = "rect" /\ HostOf(b) = d},
                  [b \in Cells |->
                      IF RingOf(b) \in S
                      THEN (Width(b) + 2 + 2 * DilateReach)
                               * (Height(b) + 2 + 2 * DilateReach)
                           - 4 - BoxN(b) - RingN(b)
                      ELSE (Width(b) + 2 * DilateReach)
                               * (Height(b) + 2 * DilateReach)
                           - BoxN(b) - (IF RingOf(b) = 0 THEN 0 ELSE RingN(b))])
    ELSE IF Kind(d) = "ring"
         THEN IF img.cells[d].inner \in S \/ HostOf(d) \in S THEN RingN(d) ELSE 0
    ELSE IF RingOf(d) \in S THEN BoxLayers(d, DilateReach)
    ELSE IF HostOf(d) \in S THEN BoxLayers(d, DilateReach - 1)
    ELSE 0

\* np.unique(nids, return_counts=True): the count of label v in the zone.
ZoneCount(field, S, v) ==
    SetSum({d \in Cells : field[d] = v}, [d \in Cells |-> ZonePixels(S, d)])

\* MIN_PCT = 0.25 as a fraction: pct >= MIN_PCT iff size * 400 >= h * w.
MinPctInverse == 400

\* Variant of AbsorbOne: the reassignment of line 342 left out.
AbsorbOneNothing(field, k) == field

\* Variant of AbsorbOne: the test of k['protected'] left out.
AbsorbOneAnyKingdom(field, k) ==
    LET S == {c \in Cells : field[c] = k.id}
        nids == {v \in {field[d] : d \in Cells \ S} :
                    v # 0 /\ ZoneCount(field, S, v) > 0}
        best == CHOOSE v \in nids :
                    \A u \in nids :
                        \/ ZoneCount(field, S, u) < ZoneCount(field, S, v)
                        \/ ZoneCount(field, S, u) = ZoneCount(field, S, v) /\ v <= u
    IN  IF k.size * MinPctInverse >= img.h * img.w THEN field
        ELSE IF S = {} \/ nids = {} THEN field
        ELSE [c \in Cells |-> IF c \in S THEN best ELSE field[c]]

\* One iteration of the loop of line 330 for the entry k of all_kingdoms.
AbsorbOne(field, k) ==
    LET S == {c \in Cells : field[c] = k.id}
        nids == {v \in {field[d] : d \in Cells \ S} :
                    v # 0 /\ ZoneCount(field, S, v) > 0}
        best == CHOOSE v \in nids :
                    \A u \in nids :
                        \/ ZoneCount(field, S, u) < ZoneCount(field, S, v)
                        \/ ZoneCount(field, S, u) = ZoneCount(field, S, v) /\ v <= u
    IN  IF k.size * MinPctInverse >= img.h * img.w \/ k.protected THEN field
        ELSE IF S = {} \/ nids = {} THEN field
        ELSE [c \in Cells |-> IF c \in S THEN best ELSE field[c]]

RECURSIVE Absorb(_, _)
\* The loop of line 330 from entry i on.
Absorb(field, i) ==
    IF i > Len(all_kingdoms) THEN field
    ELSE Absorb(AbsorbOne(field, all_kingdoms[i]), i + 1)

postVars ==
    <<run, borderVars, img, fs, edt_tie, regionVars, adjacency, pairs, mergeVars, all_kingdoms,
      kingdom_map, km_final, num_k, kingdom_data>>

Step9 ==
    /\ pc = "step9"
    /\ km' = Absorb(km, 1)
    /\ pc' = "step10"
    /\ UNCHANGED postVars

-----------------------------------------------------------------------------
(* Step 10: Mordor post-merge (lines 344-359) *)

\* mordor_bbox as (x0, y0, x1, y1)
MordorBBox == <<1050, 650, 1600, 1000>>

\* Gray level below which a kingdom in the box is a candidate (line 352).
MordorGray == 55

\* gray[field == v].mean() < g
GrayBelow(field, v, g) ==
    SetSum({c \in Cells : field[c] = v}, [c \in Cells |-> PaintOf(c).gray * CellN(c)])
        < g * Count(field, v)

MordorIds ==
    {all_kingdoms[i].id : i \in
        {j \in 1..Len(all_kingdoms) :
            /\ MordorBBox[1] <= all_kingdoms[j].center[1]
            /\ all_kingdoms[j].center[1] <= MordorBBox[3]
            /\ MordorBBox[2] <= all_kingdoms[j].center[2]
            /\ all_kingdoms[j].center[2] <= MordorBBox[4]
            /\ Count(km, all_kingdoms[j].id) > 0
            /\ GrayBelow(km, all_kingdoms[j].id, MordorGray)}}

\* km[km == old] = new
Relabel(field, old, new) ==
    [c \in Cells |-> IF field[c] = old THEN new ELSE field[c]]

\* km[km == mid] = main for every mid in ids
RelabelAll(field, ids, main) ==
    [c \in Cells |-> IF field[c] \in ids THEN main ELSE field[c]]

\* The ids max(mordor_ids, key=size) may return: one of largest size (which
\* of several depends on the iteration order of the set).
Largest(field, ids) ==
    {m \in ids : \A o \in ids : Count(field, o) <= Count(field, m)}

Step10 ==
    /\ pc = "step10"
    /\ IF Cardinality(MordorIds) > 1
       THEN \E main \in Largest(km, MordorIds) :
                km' = RelabelAll(km, MordorIds, main)
       ELSE km' = km
    /\ pc' = "step11"
    /\ UNCHANGED postVars

-----------------------------------------------------------------------------
(* Step 11: Misty Mountains merge (lines 361-374) *)

\* field[y, x]; -1 stands for the IndexError of a read outside the raster.
At(field, y, x) == IF CellAt(y, x) = 0 THEN -1 ELSE field[CellAt(y, x)]

\* Merge the smaller of a and b into the larger (a wins ties).
MergeSmaller(field, a, b) ==
    IF Count(field, a) >= Count(field, b)
    THEN Relabel(field, b, a) ELSE Relabel(field, a, b)

Step11 ==
    /\ pc = "step11"
    /\ LET mm_id_at_a == At(km, 395, 796)
           mm_id_at_b == At(km, 452, 769)
       IN  IF mm_id_at_a = -1 \/ mm_id_at_b = -1
           THEN pc' = "crashed" /\ km' = km
           ELSE /\ pc' = "step12"
                /\ km' = IF mm_id_at_a # mm_id_at_b /\ mm_id_at_a > 0 /\ mm_id_at_b > 0
                         THEN MergeSmaller(km, mm_id_at_a, mm_id_at_b)
                         ELSE km
    /\ UNCHANGED postVars

-----------------------------------------------------------------------------
(* Step 12: Orthanc circle carve-out (lines 376-398) *)

\* area[580:680, 770:860] as (y0, y1, x0, x1)
OrthancArea == <<580, 680, 770, 860>>

\* Gray level below which a pixel belongs to dark_ring (line 380).
DarkRing == 45

\* Cell c lies inside the slice [a[1]:a[2], a[3]:a[4]].
Inside(c, a) ==
    /\ a[1] <= img.cells[c].y0 /\ img.cells[c].y1 <= a[2]
    /\ a[3] <= img.cells[c].x0 /\ img.cells[c].x1 <= a[4]

\* The columns that cross the Orthanc area are brighter than DarkRing, so
\* the dark pixels of the area are those of its dark boxes.
OrthancAreaBright ==
    \A c \in Columns :
        (img.cells[c].x0 < OrthancArea[4] /\ OrthancArea[3] < img.cells[c].x1
         /\ OrthancArea[1] < img.h)
            => PaintOf(c).gray >= DarkRing

\* Variant of OrthancBlobs: the boxes of the area whatever their gray level.
OrthancBlobsAnyShade ==
    {c \in Cells : Kind(c) = "rect" /\ Inside(c, OrthancArea)}

\* The components of orthanc_u8: a dark box is closed, so flood fill and the
\* morphological open/close return the box itself.
OrthancBlobs ==
    {c \in Cells : Kind(c) = "rect" /\ Inside(c, OrthancArea)
                   /\ PaintOf(c).gray < DarkRing}

\* The first component of largest size in label (raster) order.
FirstLargest(S) ==
    CHOOSE c \in S :
        \A d \in S :
            \/ BoxN(d) < BoxN(c)
            \/ /\ BoxN(d) = BoxN(c)
               /\ <<img.cells[c].y0, img.cells[c].x0>> = <<img.cells[d].y0, img.cells[d].x0>>
            \/ /\ BoxN(d) = BoxN(c)
               /\ \/ img.cells[c].y0 < img.cells[d].y0
                  \/ /\ img.cells[c].y0 = img.cells[d].y0
                     /\ img.cells[c].x0 < img.cells[d].x0

\* km.max() + 1 in uint16
FreshId(field) == (FieldMax(field) + 1) % 65536

\* km[mask] = v for the mask of cell b
Carve(field, b, v) == [c \in Cells |-> IF c = b THEN v ELSE field[c]]

Step12 ==
    /\ pc = "step12"
    /\ km' = IF OrthancBlobs # {}
             THEN Carve(km, FirstLargest(OrthancBlobs), FreshId(km))
             ELSE km
    /\ pc' = "step13"
    /\ UNCHANGED postVars

-----------------------------------------------------------------------------
(* Step 13: Sea of Rhun extraction (lines 400-467) *)

\* rhun_area[380:580, 1440:1680] as (y0, y1, x0, x1)
RhunArea == <<380, 580, 1440, 1680>>

\* int(xs.mean()) of the mask field == v
CenterX(field, v) ==
    SetSum({c \in Cells : field[c] = v}, [c \in Cells |-> CellSumX(c)])
        \div Count(field, v)

\* Bounds of a Rhun candidate (line 410).
RhunMinX == 1500

RhunMinSize == 100000

RhunCandidates ==
    {kid_id \in 1..FieldMax(km) :
        /\ Count(km, kid_id) > 0
        /\ CenterX(km, kid_id) > RhunMinX
        /\ Count(km, kid_id) > RhunMinSize}

\* Bounds of a sea component (lines 448, 452).
SeaMinSize == 500

SeaMaxSize == 50000

SeaWindow == <<1460, 1650, 400, 560>>

\* The components of inv_borders that pass the filters of lines 448-453:
\* the boxes inside the Rhun area (a raster covered by texture has borders
\* everywhere, so no component).
SeaComponents ==
    {c \in Cells :
        /\ ~img.tex
        /\ Kind(c) = "rect" /\ Inside(c, RhunArea)
        /\ BoxN(c) >= SeaMinSize /\ BoxN(c) <= SeaMaxSize
        /\ SeaWindow[1] < BoxSumX(c) \div BoxN(c)
        /\ BoxSumX(c) \div BoxN(c) < SeaWindow[2]
        /\ SeaWindow[3] < BoxSumY(c) \div BoxN(c)
        /\ BoxSumY(c) \div BoxN(c) < SeaWindow[4]}

\* warmth = r_ch - b_ch  (line 420)
Warmth(c) == PaintOf(c).rgb[1] - PaintOf(c).rgb[3]

\* The first component of largest warmth in label (raster) order.
Warmest(S) ==
    CHOOSE c \in S :
        \A d \in S \ {c} :
            \/ Warmth(d) < Warmth(c)
            \/ /\ Warmth(d) = Warmth(c)
               /\ \/ img.cells[c].y0 < img.cells[d].y0
                  \/ /\ img.cells[c].y0 = img.cells[d].y0
                     /\ img.cells[c].x0 < img.cells[d].x0

Step13 ==
    /\ pc = "step13"
    /\ km' = IF RhunCandidates # {} /\ SeaComponents # {}
             THEN Carve(km, Warmest(SeaComponents), FreshId(km))
             ELSE km
    /\ pc' = "step14"
    /\ UNCHANGED postVars

-----------------------------------------------------------------------------
(* Step 14: Rhun merge (lines 469-477) *)

\* Largest dark spot that is merged (line 475).
DarkSpotMax == 20000

Step14 ==
    /\ pc = "step14"
    /\ LET dark_east_id == At(km, 515, 1708)
           main_rhun_id == At(km, 565, 1638)
       IN  IF dark_east_id = -1 \/ main_rhun_id = -1
           THEN pc' = "crashed" /\ km' = km
           ELSE /\ pc' = "step15"
                /\ km' = IF /\ dark_east_id # main_rhun_id
                            /\ dark_east_id > 0 /\ main_rhun_id > 0
                            /\ Count(km, dark_east_id) < DarkSpotMax
                         THEN Relabel(km, dark_east_id, main_rhun_id)
                         ELSE km
    /\ UNCHANGED postVars

-----------------------------------------------------------------------------
(* Step 15: Isengard merge (lines 479-502) *)

\* Largest size of the two Isengard regions (line 495).
IsengardMax == 30000

\* Fifty times the colour distance below which they merge (line 498).
IsengardThreshold50 == 2000

\* img_rgb[field == v].mean(axis=0) for a field that covers the frame
FullMeanColor(field, v) ==
    RatVec([i \in 1..3 |->
               SetSum({c \in Cells : field[c] = v},
                      [c \in Cells |-> PaintOf(c).rgb[i] * CellN(c)])],
           Count(field, v))

Step15 ==
    /\ pc = "step15"
    /\ LET id_at_579 == At(km, 579, 865)
           nearby_id == At(km, 592, 850)
           id_at_265 == At(km, 265, 845)
       IN  IF id_at_579 = -1 \/ nearby_id = -1 \/ id_at_265 = -1
           THEN pc' = "crashed" /\ km' = km
           ELSE /\ pc' = "step16"
                /\ km' = IF /\ id_at_579 # id_at_265
                            /\ id_at_579 > 0 /\ id_at_265 > 0
                            /\ Count(km, id_at_579) < IsengardMax
                            /\ Count(km, id_at_265) < IsengardMax
                            /\ DistBelow(FullMeanColor(km, id_at_579),
                                         FullMeanColor(km, id_at_265),
                                         IsengardThreshold50)
                         THEN MergeSmaller(km, id_at_579, id_at_265)
                         ELSE km
    /\ UNCHANGED postVars

-----------------------------------------------------------------------------
(* Step 16: consecutive numbering and orphan fill (lines 504-525) *)

\* Variant of Renumber: the ids are kept as they are.
RenumberKeep(field) == field

\* Variant of Renumber: every id in use is raised by one.
RenumberShift(field) ==
    [c \in Cells |-> IF field[c] = 0 THEN 0 ELSE field[c] + 1]

\* Variant of Renumber: the ids in use, in descending order, become 1, 2, ...
RenumberDescending(field) ==
    [c \in Cells |->
        IF field[c] = 0 THEN 0
        ELSE Cardinality({v \in {field[d] : d \in Cells} : field[c] <= v})]

\* id_remap applied to the field: the ids in use, in ascending order, become
\* 1, 2, ...; 0 stays 0.
Renumber(field) ==
    [c \in Cells |->
        IF field[c] = 0 THEN 0
        ELSE Cardinality({v \in {field[d] : d \in Cells} : 0 < v /\ v <= field[c]})]

\* Lines 506-522: remap, then orphan fill.
RenumberFill(field, tie) == Fill(Renumber(field), tie)

Step16 ==
    /\ pc = "step16"
    /\ km_final' = RenumberFill(km, edt_tie)
    /\ num_k' = FieldMax(km_final')
    /\ pc' = "export"
    /\ UNCHANGED <<run, borderVars, img, fs, edt_tie, regionVars, adjacency, pairs, mergeVars,
                   all_kingdoms, kingdom_map, km, kingdom_data>>

-----------------------------------------------------------------------------
(* Export (lines 527-653) *)

\* mask.astype(np.uint8) * 255 for mask = (km_final == kid)
MaskOf(kid) == [c \in Cells |-> IF km_final[c] = kid THEN 255 ELSE 0]

\* Variant of ExportedIds: range(1, num_k) in place of range(1, num_k + 1).
ExportedIdsShort == {kid \in 1..(num_k - 1) : Count(km_final, kid) # 0}

\* The ids the loop of line 538 does not skip, ascending.
ExportedIds == {kid \in 1..num_k : Count(km_final, kid) # 0}

\* The entry of kingdom_data for kid.
DataEntry(kid) ==
    [id |-> kid,
     avg_color_rgb |->
        [i \in 1..3 |->
            SetSum({c \in Cells : km_final[c] = kid},
                   [c \in Cells |-> PaintOf(c).rgb[i] * CellN(c)])
                \div Count(km_final, kid)],
     area_pixels |-> Count(km_final, kid),
     center |-> [x |-> CenterX(km_final, kid),
                 y |-> SetSum({c \in Cells : km_final[c] = kid},
                              [c \in Cells |-> CellSumY(c)])
                           \div Count(km_final, kid)]]

RECURSIVE AscendingSeq(_)
\* The elements of a set of integers as an ascending sequence.
AscendingSeq(S) ==
    IF S = {} THEN <<>> ELSE <<SetMin(S)>> \o AscendingSeq(S \ {SetMin(S)})

\* The files the ZIP archive holds besides the masks (line 649-650).
ZipFiles ==
    {"region_data.json", "kingdom_label_map.png", "kingdom_colored.png",
     "kingdom_overlay.png"}

Export ==
    /\ pc = "export"
    /\ kingdom_data' = [k \in 1..Cardinality(ExportedIds) |->
                           DataEntry(AscendingSeq(ExportedIds)[k])]
    /\ fs' = [dir |-> TRUE,
              mask_dir |-> TRUE,
              label_map |-> km_final,
              region_data |-> [image_width |-> img.w,
                               image_height |-> img.h,
                               num_kingdoms |-> num_k,
                               kingdoms |-> kingdom_data'],
              masks |-> [kid \in (DOMAIN fs.masks) \cup ExportedIds |->
                            IF kid \in ExportedIds THEN MaskOf(kid)
                            ELSE fs.masks[kid]],
              colored |-> TRUE,
              overlay |-> TRUE,
              zip |-> [files |-> ZipFiles,
                       masks |-> (DOMAIN fs.masks) \cup ExportedIds]]
    /\ pc' = "done"
    /\ UNCHANGED <<run, borderVars, img, edt_tie, regionVars, adjacency, pairs, mergeVars,
                   all_kingdoms, kingdom_map, km, km_final, num_k>>

\* The script is run again with the same output directory (lines 667-674,
\* output_dir defaults to ./kingdom_export): a new call starts with fresh
\* locals and finds the directory as the completed call left it.
Rerun ==
    /\ pc = "done"
    /\ run < MaxRuns
    /\ run' = run + 1
    /\ pc' = "load"
    /\ img' \in LaterRasters
    /\ edt_tie' = Unset
    /\ ws' = <<>>
    /\ UNCHANGED borderVars
    /\ num_labels' = 0
    /\ region_colors' = <<>>
    /\ region_sizes' = <<>>
    /\ region_hues' = <<>>
    /\ region_sats' = <<>>
    /\ protected_region_ids' = {}
    /\ adjacency' = {}
    /\ pairs' = <<>>
    /\ parent' = <<>>
    /\ rnk' = <<>>
    /\ pass_num' = 0
    /\ pidx' = 0
    /\ groups' = <<>>
    /\ gavg' = <<>>
    /\ gsz' = <<>>
    /\ ghue' = <<>>
    /\ gsat' = <<>>
    /\ merged' = 0
    /\ all_kingdoms' = <<>>
    /\ kingdom_map' = <<>>
    /\ km' = <<>>
    /\ km_final' = <<>>
    /\ num_k' = 0
    /\ kingdom_data' = <<>>
    /\ UNCHANGED fs

Next ==
    \/ LoadFails
    \/ LoadOk
    \/ Segment
    \/ BuildAdjacency
    \/ SortPairs
    \/ PassStart
    \/ EvalSameRoot
    \/ EvalVeto
    \/ EvalBothProtected
    \/ EvalNormal
    \/ PassEnd
    \/ Step7
    \/ Step8
    \/ Step9
    \/ Step10
    \/ Step11
    \/ Step12
    \/ Step13
    \/ Step14
    \/ Step15
    \/ Step16
    \/ Export
    \/ Rerun

Spec == Init /\ [][Next]_vars

-----------------------------------------------------------------------------
(* Properties *)

\* The non-zero labels of a field.
IdsOf(field) == {field[c] : c \in Cells} \ {0}

\* Some id below the largest one labels no pixel of the field.
Sparse(field) == \E v \in 1..FieldMax(field) : Count(field, v) = 0

\* C1 (tiling invariant): once Step 16 has run, every pixel of km_final
\* carries an ID in 1..num_kingdoms and none carries the background 0.
C1_Tiling ==
    pc \in {"export", "done"} =>
        \A c \in Cells : km_final[c] \in 1..num_k

\* C2 (ID density): after Step 16 the IDs that occur in km_final are exactly
\* 1..num_kingdoms, num_kingdoms is the largest label, and so every ID of
\* the range labels at least one pixel.
C2_IdDensity ==
    pc \in {"export", "done"} =>
        /\ IdsOf(km_final) = 1..num_k
        /\ num_k = FieldMax(km_final)
        /\ \A v \in 1..num_k : Count(km_final, v) > 0

\* Step 16 ran on a field with several ids of which one had been emptied.
C2_SparseFieldRenumbered ==
    pc = "done" /\ Sparse(km) /\ num_k >= 2

\* The number of 255-pixels of a mask file.
MaskPixels(mask) == SetSum({c \in Cells : mask[c] = 255}, [c \in Cells |-> CellN(c)])

\* C3 (label map / manifest consistency): the kingdoms list of
\* region_data.json has exactly one entry for each ID of the exported label
\* map and none for another ID, its length is the written num_kingdoms, and
\* the area_pixels of each entry is the count of its ID in the label map and
\* the number of 255-pixels of its mask.
C3_ManifestConsistent ==
    pc = "done" =>
        LET ks == fs.region_data.kingdoms
        IN  /\ {ks[k].id : k \in DOMAIN ks} = IdsOf(fs.label_map)
            /\ \A j, k \in DOMAIN ks : ks[j].id = ks[k].id => j = k
            /\ Len(ks) = fs.region_data.num_kingdoms
            /\ \A k \in DOMAIN ks :
                   /\ ks[k].id \in DOMAIN fs.masks
                   /\ ks[k].area_pixels = Count(fs.label_map, ks[k].id)
                   /\ ks[k].area_pixels = MaskPixels(fs.masks[ks[k].id])

\* An export of several Kingdoms has been written.
C3_SeveralKingdomsExported ==
    pc = "done" /\ Len(fs.region_data.kingdoms) >= 2

\* C4 (protection veto): no disjoint set ever holds both a protected and an
\* unprotected FineRegion.
C4_ProtectionVeto ==
    \A a, b \in DOMAIN parent :
        (a \in protected_region_ids /\ b \notin protected_region_ids)
            => Find(parent, a).root # Find(parent, b).root

\* The merge run is over, it merged something, and it met a pair of one
\* protected and one unprotected FineRegion whose colours are nearer than
\* the threshold of the normal rule.
C4_MixedPairKeptApart ==
    /\ pc = "step7"
    /\ \E a, b \in DOMAIN parent : a # b /\ Find(parent, a).root = Find(parent, b).root
    /\ \E i \in DOMAIN pairs :
           LET r == pairs[i].r
               n == pairs[i].n
           IN  /\ (r \in protected_region_ids) # (n \in protected_region_ids)
               /\ DistBelow(region_colors[r], region_colors[n],
                            Threshold50(region_colors[r], region_colors[n],
                                        region_hues[r], region_hues[n],
                                        region_sats[r], region_sats[n]))

\* C5 (strict threshold): an evaluation of two unprotected sets joins them
\* if and only if the distance of their aggregate colours is strictly below
\* the adjusted threshold; at equality it joins nothing.
C5_StrictThreshold ==
    [][(/\ AtPair
        /\ FindA.root # FindB.root
        /\ ~GroupProtected(FindA.root)
        /\ ~GroupProtected(FindB.root))
       => LET ra == FindA.root
              rb == FindB.root
              c1 == Get(gavg, ra, region_colors[ra])
              c2 == Get(gavg, rb, region_colors[rb])
              thr == Threshold50(c1, c2, Get(ghue, ra, Rat(0, 1)),
                                 Get(ghue, rb, Rat(0, 1)),
                                 Get(gsat, ra, Rat(0, 1)),
                                 Get(gsat, rb, Rat(0, 1)))
              joined == Find(parent', ra).root = Find(parent', rb).root
          IN  /\ joined <=> DistBelow(c1, c2, thr)
              /\ joined <=> (merged' = merged + 1)]_vars

\* The pair just evaluated is still apart, both sets are unprotected and the
\* distance of their aggregate colours equals the adjusted threshold.
C5_EqualityEvaluated ==
    /\ pc = "eval"
    /\ pidx > 1
    /\ LET ra == Find(parent, pairs[pidx - 1].r).root
           rb == Find(parent, pairs[pidx - 1].n).root
           c1 == Get(gavg, ra, region_colors[ra])
           c2 == Get(gavg, rb, region_colors[rb])
       IN  /\ ra # rb
           /\ ~GroupProtected(ra) /\ ~GroupProtected(rb)
           /\ DistEqual(c1, c2,
                        Threshold50(c1, c2, Get(ghue, ra, Rat(0, 1)),
                                    Get(ghue, rb, Rat(0, 1)),
                                    Get(gsat, ra, Rat(0, 1)),
                                    Get(gsat, rb, Rat(0, 1))))

\* The ids of a field are exactly 1..n and no pixel is 0.
Dense(field) ==
    /\ \A c \in Cells : field[c] # 0
    /\ IdsOf(field) = 1..FieldMax(field)

\* C6 (idempotent renumbering): the renumberer (remap and orphan fill)
\* returns a field with ids 1..n and no 0 pixel as it is, and applied twice
\* to a field with a non-zero pixel it returns what it returns applied once.
C6_RenumberIdempotent ==
    /\ (pc = "step16" /\ Claimed(km) # {}) =>
           \A t \in TieRules :
               RenumberFill(RenumberFill(km, t), t) = RenumberFill(km, t)
    /\ (pc \in {"export", "done"} /\ Dense(km_final)) =>
           \A t \in TieRules : RenumberFill(km_final, t) = km_final

\* Step 16 is about to renumber a field in which an id has been emptied.
C6_SparseFieldAtRenumber ==
    pc = "step16" /\ Claimed(km) # {} /\ Sparse(km)

\* pc before the pair list exists.
BeforeSort == {"load", "aborted", "segment", "adjacency", "sort"}

C8_AbortBeforeOutput ==
    /\ [](img = NoImage =>
              /\ pc \in {"load", "aborted"}
              /\ run = 1 => fs = EmptyFS
              /\ ws = <<>> /\ adjacency = {} /\ pairs = <<>> /\ parent = <<>>
              /\ kingdom_map = <<>> /\ km = <<>> /\ km_final = <<>>
              /\ kingdom_data = <<>>)
    /\ [][(img = NoImage) => fs' = fs]_vars

\* The run has been given up because the image did not decode.
C8_Aborted == pc = "aborted" /\ img = NoImage

\* The dark boxes inside the Orthanc area.
DarkOrthancBoxes ==
    {c \in Cells : Kind(c) = "rect" /\ Inside(c, OrthancArea)
                   /\ PaintOf(c).gray < DarkRing}

\* A probe pair that selects nothing: a 0 label or the same ID twice.
NothingProbed(a, b) == a >= 0 /\ b >= 0 /\ (a = 0 \/ b = 0 \/ a = b)

\* C9 (degraded but continue): a rule of Steps 10-15 whose probe reads 0,
\* whose probes read the same ID or whose candidate set is empty leaves the
\* label field as it is and hands over to the next step.
C9_SkippedRuleKeepsField ==
    [][/\ (pc = "step10" /\ Cardinality(MordorIds) < 2)
           => (km' = km /\ pc' = "step11")
       /\ (pc = "step11" /\ NothingProbed(At(km, 395, 796), At(km, 452, 769)))
           => (km' = km /\ pc' = "step12")
       /\ (pc = "step12" /\ DarkOrthancBoxes = {})
           => (km' = km /\ pc' = "step13")
       /\ (pc = "step13" /\ (RhunCandidates = {} \/ SeaComponents = {}))
           => (km' = km /\ pc' = "step14")
       /\ (pc = "step14" /\ NothingProbed(At(km, 515, 1708), At(km, 565, 1638)))
           => (km' = km /\ pc' = "step15")
       /\ (pc = "step15" /\ NothingProbed(At(km, 579, 865), At(km, 265, 845))
                         /\ At(km, 592, 850) >= 0)
           => (km' = km /\ pc' = "step16")]_vars

\* Step 12 has found no blob in a field of several Kingdoms and Step 13 is
\* next.
C9_OrthancRuleSkipped ==
    pc = "step13" /\ DarkOrthancBoxes = {} /\ Cardinality(IdsOf(km)) >= 2

\* The 50 x 50 raster of uniform mid-gray.
UniformGray == SmallRaster(<<ColGray>>, 0)

\* C10 (uniform image): the run on the 50 x 50 uniform mid-gray image ends
\* normally, with one Kingdom whose ID 1 covers all 2500 pixels.
C10_UniformImage ==
    img = UniformGray =>
        /\ pc # "crashed"
        /\ pc = "done" =>
               /\ num_k = 1
               /\ \A c \in Cells : km_final[c] = 1
               /\ Count(km_final, 1) = 2500

\* The number of disjoint sets.
NumSets == Cardinality({Find(parent, x).root : x \in DOMAIN parent})

\* The number of merges of all passes so far: every FineRegion starts as a
\* set of its own.
MergesSoFar == Cardinality(DOMAIN region_colors) - NumSets

C12_MasksMatchKingdoms ==
    pc = "done" =>
        /\ DOMAIN fs.masks = IdsOf(fs.label_map)
        /\ fs.zip.masks = IdsOf(fs.label_map)

\* The IDs of the protected Kingdoms of Step 7.
ProtectedKingdomIds ==
    {all_kingdoms[i].id : i \in {j \in DOMAIN all_kingdoms : all_kingdoms[j].protected}}

\* C13 (protected exemption from absorption): every pixel that carries the
\* ID of a protected Kingdom before Step 9 carries it after Step 9, whatever
\* the Kingdom's share of the area.
C13_ProtectedSurvivesAbsorb ==
    [][(pc = "step9")
           => \A c \in Cells :
                  km[c] \in ProtectedKingdomIds => km'[c] = km[c]]_vars

\* Step 9 is over and a protected Kingdom below the minimum share of the
\* area still has its pixels.
C13_TinyProtectedKept ==
    /\ pc = "step10"
    /\ \E i \in DOMAIN all_kingdoms :
           /\ all_kingdoms[i].protected
           /\ all_kingdoms[i].size * MinPctInverse < img.h * img.w
           /\ Count(km, all_kingdoms[i].id) > 0

\* C14 (pipeline completes for every valid input): for an image that
\* decodes no stage after loading raises; every fixed-coordinate probe of
\* Steps 11, 14 and 15 reads inside the image or its rule is skipped.
C14_PipelineCompletes ==
    img # NoImage =>
        /\ pc # "crashed"
        /\ pc = "step11" => (At(km, 395, 796) >= 0 /\ At(km, 452, 769) >= 0)
        /\ pc = "step14" => (At(km, 515, 1708) >= 0 /\ At(km, 565, 1638) >= 0)
        /\ pc = "step15" => (/\ At(km, 579, 865) >= 0
                             /\ At(km, 592, 850) >= 0
                             /\ At(km, 265, 845) >= 0)

\* The FineRegions currently in the set of root r.
SetOf(r) == {m \in DOMAIN parent : Find(parent, m).root = r}

\* The roots of the forest.
Roots == {r \in DOMAIN parent : parent[r] = r}

\* C16 (protection status from stale membership is exact): inside a pass
\* every root is a key of groups, and the flag computed from groups[root],
\* the membership at the start of the pass, says whether the current set of
\* the root holds a protected FineRegion.
C16_StaleFlagExact ==
    pc = "eval" =>
        \A r \in Roots :
            /\ r \in DOMAIN groups
            /\ (\E k \in DOMAIN groups[r] : groups[r][k] \in protected_region_ids)
                   <=> (SetOf(r) \cap protected_region_ids # {})
            /\ GroupProtected(r) <=> (SetOf(r) \cap protected_region_ids # {})

\* A merge of this pass has made a protected set larger than the membership
\* groups holds for its root.
C16_ProtectedSetGrown ==
    /\ pc = "eval"
    /\ \E r \in Roots :
           /\ Cardinality(SetOf(r)) > Len(groups[r])
           /\ SetOf(r) \cap protected_region_ids # {}

\* Entry t of the pair list comes before entry u: a smaller distance of the
\* FineRegions' own mean colours, or the same distance and a smaller (r, n).
OwnColourOrder(t, u) ==
    LET dt == DistSq(region_colors[t.r], region_colors[t.n])
        du == DistSq(region_colors[u.r], region_colors[u.n])
    IN  \/ RatLess(dt[1], dt[2], du[1], du[2])
        \/ /\ ~RatLess(du[1], du[2], dt[1], dt[2])
           /\ (t.r < u.r \/ (t.r = u.r /\ t.n < u.n))

\* C17 (candidate-pair order): the pair list holds each unordered pair of
\* adjacent FineRegions once, as r < n, in the order of the distance of the
\* FineRegions' own mean colours with ties in ascending (r, n); it is built
\* before the first pass and never changed, and every pass evaluates its
\* entries one after the other from the first on.
C17_PairListOrder ==
    /\ [](pc \notin BeforeSort =>
              /\ \A i \in DOMAIN pairs :
                     /\ pairs[i].r < pairs[i].n
                     /\ <<pairs[i].r, pairs[i].n>> \in adjacency
                     /\ pairs[i].dist = DistSq(region_colors[pairs[i].r],
                                               region_colors[pairs[i].n])
              /\ \A e \in adjacency :
                     Cardinality({i \in DOMAIN pairs :
                                     {pairs[i].r, pairs[i].n} = {e[1], e[2]}}) = 1
              /\ \A i, j \in DOMAIN pairs :
                     i < j => OwnColourOrder(pairs[i], pairs[j]))
    /\ [][(pc \in {"pass", "eval"}) => pairs' = pairs]_vars
    /\ [][(pc = "pass") => (pc' = "eval" /\ pidx' = 1)]_vars
    /\ [][(pc = "eval" /\ pidx <= Len(pairs))
              => (/\ pc' = "eval"
                  /\ pidx' = pidx + 1
                  /\ merged' # merged =>
                         Find(parent', pairs[pidx].r).root
                             = Find(parent', pairs[pidx].n).root
                  /\ \A m \in DOMAIN parent :
                         Find(parent', m).root # Find(parent, m).root =>
                             Find(parent, m).root
                                 \in {Find(parent, pairs[pidx].r).root,
                                      Find(parent, pairs[pidx].n).root})]_vars

\* A later pass is under way on a list of several pairs, and a set's
\* aggregate colour is no longer the own colour of its root.
C17_LaterPassSameOrder ==
    /\ pc = "eval"
    /\ pass_num >= 1
    /\ pidx > 1
    /\ Len(pairs) >= 2
    /\ \E r \in DOMAIN gavg : gavg[r] # region_colors[r]

\* C18 (incremental aggregates equal recomputed aggregates): inside a pass
\* the aggregate stored for every current root is the pixel count and the
\* size-weighted mean colour, hue and saturation of the FineRegions now in
\* its set, after merges of the normal and of the both-protected branch.
C18_AggregatesExact ==
    pc = "eval" =>
        \A r \in Roots :
            LET members == AscendingSeq(SetOf(r))
            IN  /\ gsz[r] = MemberSize(members)
                /\ gavg[r] = MemberColor(members)
                /\ ghue[r] = MemberMean(region_hues, members)
                /\ gsat[r] = MemberMean(region_sats, members)

\* The two sets of the pair the inner loop is at both hold a protected
\* FineRegion.
BothSetsProtected ==
    /\ AtPair
    /\ FindA.root # FindB.root
    /\ SetOf(FindA.root) \cap protected_region_ids # {}
    /\ SetOf(FindB.root) \cap protected_region_ids # {}

\* C20 (both-protected rule): an evaluation of two sets that both hold a
\* protected FineRegion joins them if and only if the RGB distance of their
\* aggregate colours is strictly below 15, whatever their hues, saturations
\* and brightness; otherwise it leaves every set and the merge count as
\* they were.
C20_BothProtectedRule ==
    [][BothSetsProtected =>
          LET ra == FindA.root
              rb == FindB.root
              near == DistBelow(gavg[ra], gavg[rb], 15 * 50)
              joined == Find(parent', ra).root = Find(parent', rb).root
          IN  /\ joined <=> near
              /\ merged' = (IF near THEN merged + 1 ELSE merged)
              /\ ~near =>
                     \A x, y \in DOMAIN parent :
                         (Find(parent', x).root = Find(parent', y).root)
                             <=> (Find(parent, x).root = Find(parent, y).root)]_vars

\* The pair just evaluated is of two protected sets at distance 15 or more
\* that the adjusted threshold of the normal rule would have joined; they
\* are apart.
C20_DistantProtectedApart ==
    /\ pc = "eval"
    /\ pidx > 1
    /\ LET ra == Find(parent, pairs[pidx - 1].r).root
           rb == Find(parent, pairs[pidx - 1].n).root
       IN  /\ ra # rb
           /\ SetOf(ra) \cap protected_region_ids # {}
           /\ SetOf(rb) \cap protected_region_ids # {}
           /\ ~DistBelow(gavg[ra], gavg[rb], 15 * 50)
           /\ DistBelow(gavg[ra], gavg[rb],
                        Threshold50(gavg[ra], gavg[rb], ghue[ra], ghue[rb],
                                    gsat[ra], gsat[rb]))

\* The square of the distance between the nearest pixels of the cells c
\* and e: 1 for a ring and its box, a ring or a box and its stripe, and
\* the gaps between the extents of the cells otherwise.
CellGapSq(c, e) ==
    IF \/ (~IsColumn(c) /\ e = HostOf(c))
       \/ (~IsColumn(e) /\ c = HostOf(e))
       \/ (Kind(c) = "ring" /\ e = img.cells[c].inner)
       \/ (Kind(e) = "ring" /\ c = img.cells[e].inner)
    THEN 1
    ELSE LET gx == Max(0, Max(img.cells[e].x0 - img.cells[c].x1 + 1,
                              img.cells[c].x0 - img.cells[e].x1 + 1))
             gy == Max(0, Max(img.cells[e].y0 - img.cells[c].y1 + 1,
                              img.cells[c].y0 - img.cells[e].y1 + 1))
         IN  gx * gx + gy * gy

\* C21 (gap fill): Step 8 gives every pixel that is 0 in kingdom_map the
\* label of a claimed pixel at minimal Euclidean distance, leaves the label
\* of every claimed pixel as it was, brings in no label that was not there,
\* and leaves no 0 pixel if some pixel was claimed.
C21_GapFill ==
    [][(pc = "step8") =>
          (/\ \A c \in Cells :
                 /\ kingdom_map[c] > 0 => km'[c] = kingdom_map[c]
                 /\ (kingdom_map[c] = 0 /\ Claimed(kingdom_map) # {}) =>
                        \E d \in Claimed(kingdom_map) :
                            /\ km'[c] = kingdom_map[d]
                            /\ \A e \in Claimed(kingdom_map) :
                                   CellGapSq(c, d) <= CellGapSq(c, e)
           /\ {km'[c] : c \in Cells} \subseteq {kingdom_map[c] : c \in Cells}
           /\ Claimed(kingdom_map) # {} => \A c \in Cells : km'[c] > 0)]_vars

\* Step 8 has filled a border line that lies between two Kingdoms, and a
\* line with a third Kingdom beyond one of them.
C21_LinesFilled ==
    /\ pc = "step9"
    /\ Cardinality({km[c] : c \in Cells}) >= 3
    /\ \E c \in Cells :
           /\ kingdom_map[c] = 0
           /\ km[c] > 0
           /\ \E d \in Claimed(kingdom_map) : kingdom_map[d] # km[c]

\* The entries of all_kingdoms Step 9 is to absorb: not protected and below
\* 0.25% of the raster.
TinyKingdoms ==
    {i \in 1..Len(all_kingdoms) :
        /\ ~all_kingdoms[i].protected
        /\ all_kingdoms[i].size * MinPctInverse < img.h * img.w}

\* C22 as stated (tiny-region absorption is complete): when the field
\* holds at least two labels, no Kingdom that is not protected and below
\* 0.25% keeps a pixel once Step 9 has gone through all Kingdoms.
C22_AbsorptionComplete ==
    [][(pc = "step9" /\ Cardinality(IdsOf(km)) >= 2) =>
          \A i \in TinyKingdoms : \A c \in Cells : km'[c] # all_kingdoms[i].id]_vars

RECURSIVE StageField(_)
\* The field as the loop of Step 9 finds it when it comes to entry i of
\* all_kingdoms.
StageField(i) ==
    IF i = 1 THEN km ELSE AbsorbOne(StageField(i - 1), all_kingdoms[i - 1])

\* C22 (tiny-region absorption): Step 9 gives all pixels of each Kingdom
\* that is not protected and below 0.25% to the most frequent other
\* non-zero label of its dilation zone and leaves the pixels of the other
\* labels as they were; Kingdoms that are protected or not below 0.25% are
\* passed over; and if there is such a Kingdom, no Kingdom that is not
\* protected and below 0.25% keeps a pixel once Step 9 has gone through
\* all Kingdoms.
C22_TinyAbsorbed ==
    [][(pc = "step9") =>
          (/\ km' = StageField(Len(all_kingdoms) + 1)
           /\ \A i \in 1..Len(all_kingdoms) :
                  LET f == StageField(i)
                      S == {c \in Cells : f[c] = all_kingdoms[i].id}
                      others == IdsOf(f) \ {all_kingdoms[i].id}
                  IN  IF i \in TinyKingdoms /\ S # {} /\ others # {}
                      THEN \E v \in others :
                               /\ ZoneCount(f, S, v) > 0
                               /\ \A u \in others :
                                      ZoneCount(f, S, u) <= ZoneCount(f, S, v)
                               /\ StageField(i + 1) =
                                      [c \in Cells |-> IF c \in S THEN v ELSE f[c]]
                      ELSE StageField(i + 1) = f
           /\ TinyKingdoms # 1..Len(all_kingdoms) =>
                  \A i \in TinyKingdoms :
                      \A c \in Cells : km'[c] # all_kingdoms[i].id)]_vars

\* Step 9 has taken all pixels of two Kingdoms below 0.25%, next to
\* Kingdoms that it passes over.
C22_TinyKingdomsGone ==
    /\ pc = "step10"
    /\ TinyKingdoms # 1..Len(all_kingdoms)
    /\ Cardinality({i \in TinyKingdoms :
                       /\ \E c \in Cells : kingdom_map[c] = all_kingdoms[i].id
                       /\ \A c \in Cells : km[c] # all_kingdoms[i].id}) >= 2

\* The positions of Steps 9-15.
PostMergeSteps ==
    {"step9", "step10", "step11", "step12", "step13", "step14", "step15"}

\* C23 (no protected/ordinary blending after merging): none of Steps 9-15
\* gives pixels of a Kingdom that is not protected the ID of a protected
\* Kingdom, or pixels of a protected Kingdom the ID of one that is not.
C23_NoBlending ==
    [][(pc \in PostMergeSteps) =>
          \A c \in Cells :
              (/\ km'[c] # km[c]
               /\ km[c] \in 1..Len(all_kingdoms)
               /\ km'[c] \in 1..Len(all_kingdoms))
                  => (all_kingdoms[km[c]].protected
                          <=> all_kingdoms[km'[c]].protected)]_vars

\* The positions of the point-probe rules: Steps 11, 14 and 15.
ProbeSteps == {"step11", "step14", "step15"}

\* C25 (point-probe merges keep the larger region): whenever Step 11, 14
\* or 15 merges two regions, the ID that survives is that of the region
\* with the greater or equal pixel count, the other ID is gone from the
\* field, the survivor's count is the sum of both and every other label is
\* as it was.
C25_ProbeKeepsLarger ==
    [][(pc \in ProbeSteps /\ km' # km) =>
          \E a, b \in IdsOf(km) :
              /\ a # b
              /\ Count(km, a) >= Count(km, b)
              /\ km' = Relabel(km, b, a)
              /\ Count(km', b) = 0
              /\ Count(km', a) = Count(km, a) + Count(km, b)]_vars

\* ys.mean() of the pixels labelled v, truncated by int().
CenterY(field, v) ==
    SetSum({c \in Cells : field[c] = v}, [c \in Cells |-> CellSumY(c)])
        \div Count(field, v)

\* The Kingdoms of a label field whose centroid in that field lies in the
\* Mordor rectangle and whose mean gray level is below the cutoff.
MordorNow(field) ==
    {v \in IdsOf(field) :
        /\ MordorBBox[1] <= CenterX(field, v)
        /\ CenterX(field, v) <= MordorBBox[3]
        /\ MordorBBox[2] <= CenterY(field, v)
        /\ CenterY(field, v) <= MordorBBox[4]
        /\ GrayBelow(field, v, MordorGray)}

\* C26 (bounding-box-and-brightness merge): Step 10 leaves, of the
\* Kingdoms whose centroid in the label field it is given lies in the
\* Mordor rectangle and whose mean gray level is below 55, exactly one ID,
\* one of largest pixel count in that field; its pixels are the union of
\* theirs, and no other label changes.
C26_MordorMerge ==
    [][(pc = "step10") =>
          (IF MordorNow(km) = {}
           THEN km' = km
           ELSE \E main \in Largest(km, MordorNow(km)) :
                    km' = RelabelAll(km, MordorNow(km), main))]_vars

RECURSIVE Grow(_, _)
\* The regions of S that adjacency edges inside S link to those of T.
Grow(T, S) ==
    LET more == {m \in S \ T : \E t \in T : <<t, m>> \in adjacency}
    IN  IF more = {} THEN T ELSE Grow(T \cup more, S)

\* The regions of S form a connected subgraph of the adjacency graph.
AdjacencyConnected(S) == S = {} \/ Grow({SetMin(S)}, S) = S

\* The positions of the merge run, from its first pass to Step 7.
MergeRun == {"sort", "pass", "eval", "step7"}

\* C29 (merged sets are adjacency-connected): adjacency is symmetric and
\* irreflexive and mentions only FineRegions of at least 50 pixels, and at
\* every point of the merge run the FineRegions of each disjoint set form a
\* connected subgraph of it.
C29_SetsConnected ==
    /\ \A e \in adjacency :
           /\ e[1] # e[2]
           /\ <<e[2], e[1]>> \in adjacency
           /\ \A i \in 1..2 :
                  /\ e[i] \in DOMAIN region_colors
                  /\ region_sizes[e[i]] >= MinRegionSize
    /\ pc \in MergeRun =>
           \A r \in Roots : AdjacencyConnected(SetOf(r))

\* Inside a pass a set of three or more FineRegions exists, two of which
\* are not adjacent to each other.
C29_ChainJoined ==
    /\ pc = "eval"
    /\ \E r \in Roots :
           /\ Cardinality(SetOf(r)) >= 3
           /\ \E a, b \in SetOf(r) : a # b /\ <<a, b>> \notin adjacency

-----------------------------------------------------------------------------
(* find and union on their own (lines 191-206): any sequence of calls on   *)
(* the forest parent = {i: i}, rnk = {i: 0} over the elements              *)
(* 1..MaxElements.                                                         *)

UFInit ==
    /\ run = 1
    /\ pc = "uf"
    /\ img = NoImage
    /\ fs = EmptyFS
    /\ edt_tie = Unset
    /\ border_fixed = {}
    /\ rescued_blob_masks = <<>>
    /\ blob_id = 0
    /\ ws = <<>>
    /\ num_labels = 0
    /\ region_colors = <<>>
    /\ region_sizes = <<>>
    /\ region_hues = <<>>
    /\ region_sats = <<>>
    /\ protected_region_ids = {}
    /\ adjacency = {}
    /\ pairs = <<>>
    /\ parent = [i \in 1..MaxElements |-> i]
    /\ rnk = [i \in 1..MaxElements |-> 0]
    /\ pass_num = 0
    /\ pidx = 0
    /\ groups = <<>>
    /\ gavg = <<>>
    /\ gsz = <<>>
    /\ ghue = <<>>
    /\ gsat = <<>>
    /\ merged = 0
    /\ all_kingdoms = <<>>
    /\ kingdom_map = <<>>
    /\ km = <<>>
    /\ km_final = <<>>
    /\ num_k = 0
    /\ kingdom_data = <<>>

ufRest ==
    <<run, borderVars, pc, img, fs, edt_tie, regionVars, adjacency, pairs, pass_num, pidx,
      groups, gavg, gsz, ghue, gsat, merged, mapVars>>

\* find(x)
CallFind ==
    /\ pc = "uf"
    /\ \E x \in DOMAIN parent : parent' = Find(parent, x).parent
    /\ UNCHANGED <<rnk, ufRest>>

\* union(a, b)
CallUnion ==
    /\ pc = "uf"
    /\ \E a, b \in DOMAIN parent :
           /\ parent' = Union(parent, rnk, a, b).parent
           /\ rnk' = Union(parent, rnk, a, b).rnk
    /\ UNCHANGED ufRest

UFNext == CallFind \/ CallUnion

UFSpec == UFInit /\ [][UFNext]_vars

RECURSIVE Climb(_, _, _)
\* The element reached from x by at most k parent links, stopping at a root.
Climb(p, x, k) ==
    IF k = 0 \/ p[x] = x THEN x ELSE Climb(p, p[x], k - 1)

\* The root of x's tree in the forest p.
RootOf(p, x) == Climb(p, x, Cardinality(DOMAIN p))

\* C15 (union-find correctness): the forest is acyclic with ranks strictly
\* increasing towards the parent; find(x) returns the root of x's set, a
\* fixed point of parent, and its path halving leaves every set and every
\* root as it was; union(a, b) puts a and b into one set, joins exactly
\* their two sets and leaves every other set as it was.
C15_UnionFindCorrect ==
    /\ \A x \in DOMAIN parent :
           /\ parent[x] # x => rnk[x] < rnk[parent[x]]
           /\ parent[RootOf(parent, x)] = RootOf(parent, x)
    /\ \A x \in DOMAIN parent :
           LET f == Find(parent, x)
           IN  /\ f.root = RootOf(parent, x)
               /\ f.parent[f.root] = f.root
               /\ \A y \in DOMAIN parent : RootOf(f.parent, y) = RootOf(parent, y)
    /\ \A a, b \in DOMAIN parent :
           LET u == Union(parent, rnk, a, b)
               joined == {y \in DOMAIN parent :
                             RootOf(parent, y) \in {RootOf(parent, a), RootOf(parent, b)}}
           IN  /\ Find(u.parent, a).root = Find(u.parent, b).root
               /\ \A y, z \in DOMAIN parent :
                      (RootOf(u.parent, y) = RootOf(u.parent, z))
                          <=> \/ RootOf(parent, y) = RootOf(parent, z)
                              \/ (y \in joined /\ z \in joined)

\* Unions have built a tree of rank 2 and finds have halved every path of
\* the forest to one link.
C15_HalvedForest ==
    /\ pc = "uf"
    /\ \E r \in DOMAIN parent : rnk[r] = 2
    /\ \A x \in DOMAIN parent : parent[parent[x]] = parent[x]

-----------------------------------------------------------------------------
(* The adjusted threshold on its own (lines 259-275): two sets of gray     *)
(* aggregate colour with a fixed pair of hues and of saturations, made     *)
(* brighter level by level.                                                *)

\* Gray levels: the darkest and the brightest, and the levels within
\* Spread of the three band edges of line 266.
Spread == 1

DarkestLevel == 20

BrightestLevel == 200

GrayLevels ==
    {DarkestLevel, BrightestLevel}
    \cup {e + d : e \in {50, 80, 120}, d \in (0 - Spread)..Spread}

MaxHue == 14

FirstHues == 0..MaxHue

SecondHues == {0, 176}

FirstSats == {0, 20, 21}

GrayColor(b) == RatVec(<<b, b, b>>, 1)

ThrInit ==
    /\ run = 1
    /\ pc = "thr"
    /\ img = NoImage
    /\ fs = EmptyFS
    /\ edt_tie = Unset
    /\ border_fixed = {}
    /\ rescued_blob_masks = <<>>
    /\ blob_id = 0
    /\ ws = <<>>
    /\ num_labels = 0
    /\ region_colors = <<>>
    /\ region_sizes = <<>>
    /\ region_hues = <<>>
    /\ region_sats = <<>>
    /\ protected_region_ids = {}
    /\ adjacency = {}
    /\ pairs = <<>>
    /\ parent = <<>>
    /\ rnk = <<>>
    /\ pass_num = 0
    /\ pidx = 0
    /\ groups = <<>>
    /\ gavg = <<GrayColor(DarkestLevel), GrayColor(DarkestLevel)>>
    /\ gsz = <<>>
    /\ \E h1 \in FirstHues, h2 \in SecondHues : ghue = <<Rat(h1, 1), Rat(h2, 1)>>
    /\ \E s1 \in FirstSats : gsat = <<Rat(s1, 1), Rat(0, 1)>>
    /\ merged = 0
    /\ all_kingdoms = <<>>
    /\ kingdom_map = <<>>
    /\ km = <<>>
    /\ km_final = <<>>
    /\ num_k = 0
    /\ kingdom_data = <<>>

\* One of the two aggregate colours becomes brighter by one gray level;
\* hues and saturations stay.
Brighten ==
    /\ pc = "thr"
    /\ \E i \in 1..2, b \in GrayLevels :
           /\ b > gavg[i].n[1]
           /\ \A l \in GrayLevels : l > gavg[i].n[1] => b <= l
           /\ gavg' = [gavg EXCEPT ![i] = GrayColor(b)]
    /\ UNCHANGED <<run, borderVars, pc, img, fs, edt_tie, regionVars, adjacency, pairs,
                   parent, rnk, pass_num, pidx, groups, gsz, ghue, gsat,
                   merged, mapVars>>

ThrSpec == ThrInit /\ [][Brighten]_vars

\* Fifty times the threshold the normal rule uses for the two sets.
ThresholdNow ==
    Threshold50(gavg[1], gavg[2], ghue[1], ghue[2], gsat[1], gsat[2])

\* Fifty times the base threshold of the band the two sets are in.
BandBase50 ==
    IF BriBelow(gavg[1], gavg[2], 50) THEN 1400
    ELSE IF BriBelow(gavg[1], gavg[2], 80) THEN 1750
    ELSE IF BriBelow(gavg[1], gavg[2], 120) THEN 2000 ELSE 2200

\* C19 (brightness-adaptive threshold is monotone): the adjusted threshold
\* never exceeds the base 28/35/40/44 of its band; for fixed hue and
\* saturation differences a brighter pair never gets a smaller threshold
\* than a darker pair, and never a smaller share of its base, so the branch
\* below 80 scales at least as hard as the branch from 80 on.
C19_ThresholdMonotone ==
    [][(pc = "thr") =>
          (/\ ThresholdNow <= BandBase50
           /\ ThresholdNow' <= BandBase50'
           /\ ThresholdNow <= ThresholdNow'
           /\ BandBase50 <= BandBase50'
           /\ ThresholdNow * BandBase50' <= ThresholdNow' * BandBase50)]_vars

\* Past brightness 80 with a hue difference in (5, 6]: halved below 80,
\* unscaled from 80 on.
C19_BrightPairUnscaled ==
    /\ pc = "thr"
    /\ ~BriBelow(gavg[1], gavg[2], 80)
    /\ Above(HueDiff(ghue[1], ghue[2]), 5)
    /\ ~Above(HueDiff(ghue[1], ghue[2]), 6)
    /\ Above(AbsDiff(gsat[1], gsat[2]), 20)
    /\ ThresholdNow = BandBase50

-----------------------------------------------------------------------------
(* The border mask through Steps 2 and 3 (lines 80-145), pixel column by   *)
(* pixel column, on rasters of vertical stripes: every mask is the same in *)
(* every row, so a mask is the set of its pixel columns, and a square      *)
(* kernel acts on the columns alone.  smooth is taken as the gray level.   *)

\* Largest width of the bright stripe between two dark stripes.
MaxGap == 4

\* A dark stripe of width a, a bright stripe of width g and a stripe of
\* width b painted right, over 50 rows.
BlobRaster(a, g, b, right) ==
    [h |-> 50,
     w |-> a + g + b,
     tex |-> FALSE,
     cells |-> << Column("stripe", 0, a, 50, ColA, 1),
                  Column("stripe", a, a + g, 50, ColY, 2),
                  Column("stripe", a + g, a + g + b, 50, right, 3) >>]

BlobRasters ==
    {BlobRaster(a, g, b, right) :
        a \in {8, 9, 12}, g \in 1..MaxGap, b \in {9, 12},
        right \in {ColA, ColE, ColB}}
    \cup {SmallRaster(p, 0) : p \in DarkNeighbours}

Xs == 0..(img.w - 1)

\* cv2.dilate and cv2.erode with a square kernel of side 2 * r + 1; beyond
\* the raster dilate sees clear pixels and erode set ones.
Dilate(S, r) == {x \in Xs : \E d \in (0 - r)..r : x + d \in S}

Erode(S, r) == {x \in Xs : \A d \in (0 - r)..r : x + d \in Xs => x + d \in S}

\* cv2.MORPH_CLOSE and cv2.MORPH_OPEN
Close(S, r) == Erode(Dilate(S, r), r)

Open(S, r) == Dilate(Erode(S, r), r)

\* very_dark = smooth < 35  (line 82)
VeryDarkXs == {x \in Xs : PaintOf(ColAt(x)).gray < VeryDark}

\* The first columns of the connected components of very_dark, which
\* cv2.connectedComponents numbers from left to right.
BlobStarts == {x \in VeryDarkXs : x - 1 \notin VeryDarkXs}

\* dark_labels == blob_id
BlobMask(id) ==
    LET x0 == CHOOSE x \in BlobStarts :
                  Cardinality({y \in BlobStarts : y <= x}) = id
    IN  {x \in VeryDarkXs : x0 <= x /\ \A y \in x0..x : y \in VeryDarkXs}

\* num_dark_blobs
NumDarkBlobs == Cardinality(BlobStarts) + 1

\* cv2.arcLength of the external contour of a mask of full height
Perimeter(mask) == 2 * ((Cardinality(mask) - 1) + (img.h - 1))

\* 4 * np.pi * blob_size / perimeter ** 2 > 0.03, with 355/113 for pi
Compact(blob_size, perimeter) ==
    4 * 355 * blob_size * 100 > 3 * 113 * perimeter * perimeter

\* The border masks Step 1 may hand over: none, or the columns next to a
\* change of colour (Canny, blackhat and closing are OpenCV's).
ColourChanges ==
    {x \in Xs : \E y \in {x - 1, x + 1} :
                    y \in Xs /\ PaintOf(ColAt(y)) # PaintOf(ColAt(x))}

BorderChoices == {{}, ColourChanges}

BlobInit ==
    /\ run = 1
    /\ pc = "blobs"
    /\ img \in BlobRasters
    /\ fs = EmptyFS
    /\ edt_tie = Unset
    /\ border_fixed \in BorderChoices
    /\ rescued_blob_masks = <<>>
    /\ blob_id = 1
    /\ ws = <<>>
    /\ num_labels = 0
    /\ region_colors = <<>>
    /\ region_sizes = <<>>
    /\ region_hues = <<>>
    /\ region_sats = <<>>
    /\ protected_region_ids = {}
    /\ adjacency = {}
    /\ pairs = <<>>
    /\ parent = <<>>
    /\ rnk = <<>>
    /\ pass_num = 0
    /\ pidx = 0
    /\ groups = <<>>
    /\ gavg = <<>>
    /\ gsz = <<>>
    /\ ghue = <<>>
    /\ gsat = <<>>
    /\ merged = 0
    /\ all_kingdoms = <<>>
    /\ kingdom_map = <<>>
    /\ km = <<>>
    /\ km_final = <<>>
    /\ num_k = 0
    /\ kingdom_data = <<>>

blobRest ==
    <<run, img, fs, edt_tie, regionVars, adjacency, pairs, mergeVars, mapVars>>

\* One iteration of the loop of line 89.
RescueBlob ==
    /\ pc = "blobs"
    /\ blob_id < NumDarkBlobs
    /\ LET blob_mask == BlobMask(blob_id)
           blob_size == Cardinality(blob_mask) * img.h
           perimeter == Perimeter(blob_mask)
       IN  IF blob_size < 400 \/ perimeter = 0
           THEN UNCHANGED <<border_fixed, rescued_blob_masks>>
           ELSE IF Compact(blob_size, perimeter) /\ blob_size > 400
           THEN /\ border_fixed' =
                     (border_fixed \ blob_mask)
                         \cup (Dilate(Dilate(blob_mask, 1), 1) \ blob_mask)
                /\ rescued_blob_masks' = Append(rescued_blob_masks, blob_mask)
           ELSE UNCHANGED <<border_fixed, rescued_blob_masks>>
    /\ blob_id' = blob_id + 1
    /\ UNCHANGED <<pc, blobRest>>

\* The loop of line 89 is through.
BlobsDone ==
    /\ pc = "blobs"
    /\ blob_id >= NumDarkBlobs
    /\ pc' = "hsv"
    /\ UNCHANGED <<borderVars, blobRest>>

\* The value of channel ch (hue or sat) in column x, with the reflection
\* of cv2.Sobel at the sides of the raster.
Channel(ch, x) ==
    LET y == IF x < 0 THEN 0 - x ELSE IF x >= img.w THEN 2 * img.w - 2 - x ELSE x
    IN  IF ch = "hue" THEN PaintOf(ColAt(y)).hue ELSE PaintOf(ColAt(y)).sat

\* The Sobel gradient of a channel that is the same in every row.
Gradient(ch, x) == 4 * Abs(Channel(ch, x + 1) - Channel(ch, x - 1))

\* hsv_edges_dark: hue_grad > 8 or sat_grad > 15 where smooth < 80
HsvEdgesDark ==
    {x \in Xs : /\ PaintOf(ColAt(x)).gray < 80
                /\ (Gradient("hue", x) > 8 \/ Gradient("sat", x) > 15)}

\* hsv_thin may be: the edges less what the opening with the 7 x 7 kernel
\* keeps, or nothing when the bilateral filter has spread the edges.
HsvThinChoices == {{}, HsvEdgesDark \ Open(HsvEdgesDark, 3)}

\* Step 3: hsv_thin is added to border_fixed, which is then closed.
HsvEdges ==
    /\ pc = "hsv"
    /\ \E hsv_thin \in HsvThinChoices :
           border_fixed' = Close(border_fixed \cup hsv_thin, 1)
    /\ pc' = "seeds"
    /\ UNCHANGED <<rescued_blob_masks, blob_id, blobRest>>

BlobNext == RescueBlob \/ BlobsDone \/ HsvEdges

BlobSpec == BlobInit /\ [][BlobNext]_vars

\* C24 (rescued blob interior is border-free at seeding): when the seeds
\* of Step 4 are computed, no pixel of a rescued blob is set in
\* border_fixed.
C24_BlobInteriorClear ==
    pc = "seeds" =>
        \A k \in 1..Len(rescued_blob_masks) :
            rescued_blob_masks[k] \cap border_fixed = {}

-----------------------------------------------------------------------------
(* The carve-outs on their own                                             *)
(*                                                                         *)
(* Steps 12 and 13 take the new ID from km.max() + 1 in the uint16 label   *)
(* field.  Step 7 numbers the Kingdoms 1, 2, ... by decreasing size, and   *)
(* Step 9 keeps a protected Kingdom however small it is, so on a map of    *)
(* many regions the field that reaches Step 12 may hold an ID near the top *)
(* of the 16-bit range.  CarveSpec starts at Step 12 with a large raster   *)
(* whose stripes carry increasing IDs, one stripe carrying an ID drawn     *)
(* from LastIds in place of its own, and runs Steps 12 to 16.              *)

\* Largest value of the uint16 kingdom_map (line 299).
MaxLabel == 65535

LastIds == {13, MaxLabel - 2, MaxLabel - 1, MaxLabel}

\* Large rasters with and without a dark box in the Orthanc area.
CarveRasters ==
    {RhunRaster, PlainRaster} \cup
    {BigRaster(<<ColG1, ColY, ColG1, ColG2, ColY, ColK1, ColK2, ColY, ColK2,
                 ColG1>>, orth, FALSE) : orth \in OrthancPaints}

\* The column a cell lies in.
ColumnOf(c) == IF IsColumn(c) THEN c ELSE HostOf(c)

\* The label field in which stripe j carries ID j, a border line the ID of
\* the stripe on its left, a box and its ring the ID of their stripe, and
\* stripe top the ID last.
StripedField(top, last) ==
    [c \in Cells |->
        IF (ColumnOf(c) + 1) \div 2 = top THEN last
        ELSE (ColumnOf(c) + 1) \div 2]

CarveInit ==
    /\ run = 1
    /\ pc = "step12"
    /\ img \in CarveRasters
    /\ fs = EmptyFS
    /\ edt_tie = "first"
    /\ border_fixed = {}
    /\ rescued_blob_masks = <<>>
    /\ blob_id = 0
    /\ ws = <<>>
    /\ num_labels = 0
    /\ region_colors = <<>>
    /\ region_sizes = <<>>
    /\ region_hues = <<>>
    /\ region_sats = <<>>
    /\ protected_region_ids = {}
    /\ adjacency = {}
    /\ pairs = <<>>
    /\ parent = <<>>
    /\ rnk = <<>>
    /\ pass_num = 0
    /\ pidx = 0
    /\ groups = <<>>
    /\ gavg = <<>>
    /\ gsz = <<>>
    /\ ghue = <<>>
    /\ gsat = <<>>
    /\ merged = 0
    /\ all_kingdoms = <<>>
    /\ kingdom_map = <<>>
    /\ \E top \in {1, 6, 10}, last \in LastIds : km = StripedField(top, last)
    /\ km_final = <<>>
    /\ num_k = 0
    /\ kingdom_data = <<>>

CarveNext == Step12 \/ Step13 \/ Step14 \/ Step15 \/ Step16

CarveSpec == CarveInit /\ [][CarveNext]_vars

\* The blob Step 12 and the component Step 13 give a new ID to, 0 if the
\* step carves nothing.
Carved ==
    IF pc = "step12" /\ OrthancBlobs # {} THEN FirstLargest(OrthancBlobs)
    ELSE IF pc = "step13" /\ RhunCandidates # {} /\ SeaComponents # {}
         THEN Warmest(SeaComponents)
    ELSE 0

HoleFree(field) == \A c \in Cells : field[c] > 0

C30_RenumberOrder ==
    [][(/\ (pc \in {"step12", "step13"} /\ Carved # 0 /\ km'[Carved] # 0) =>
               (\A c \in Cells : km'[c] <= km'[Carved])
        /\ (pc = "step16") =>
               (/\ {km_final'[c] : c \in Claimed(km)}
                       = 1..Cardinality(IdsOf(km))
                /\ \A c, d \in Claimed(km) :
                       /\ (km[c] = km[d]) <=> (km_final'[c] = km_final'[d])
                       /\ (km[c] < km[d]) => (km_final'[c] < km_final'[d])))]_vars

\* Step 16 has renumbered a field whose IDs had gaps and whose largest ID
\* was made by a carve-out.
C30_GapsClosed ==
    /\ pc = "export"
    /\ km_final # km
    /\ FieldMax(km) > Len(all_kingdoms)
    /\ Cardinality(IdsOf(km)) >= 3

====
